---- MODULE Spec2Model ----
(***************************************************************************)
(* PyCodeLens: the snippet store (core/database.py), the extractor that    *)
(* fills it (utils/code_extractor.py) and the context optimizer            *)
(* (llm/optimizer.py), as state machines.                                  *)
(*                                                                         *)
(* Text that the code inspects character by character (snippet names, the  *)
(* LIKE patterns of get_code_by_name, focus fragments) is a sequence of    *)
(* one-character strings; text that is only copied and measured (source    *)
(* lines, snippet code) is a string.                                       *)
(***************************************************************************)
EXTENDS Integers, Sequences, FiniteSets, TLC

VARIABLES
    fs,        \* the file system: path -> [exists, content, mtime]
    now,       \* the wall clock (datetime.now().timestamp(), os.path.getmtime)
    db,        \* the sqlite connection of CodeDatabase and the database file behind it
    ex,        \* the running CodeExtractor.extract_from_file call of the main thread
    faults,    \* failures of storage calls the environment may still inject
    ret,       \* the result a call has just returned to its caller
    hist,      \* history: the file and content of the last extraction, if it ran
               \* to the end without a storage failure
    workers,   \* the pool threads of extract_multi_files
    alloc,     \* the running TokenBudgetManager / LLMContextOptimizer call
    an         \* the running analysis of a batch of files

vars == <<fs, now, db, ex, faults, ret, hist, workers, alloc, an>>

(***************************************************************************)
(* Bounds of the model.                                                    *)
(***************************************************************************)
MaxTime == 1
MaxFaults == 1
MaxBudget == 6          \* total budgets are 0..MaxBudget tokens
MaxNegBudget == 1       \* and -MaxNegBudget..-1
MaxWeight == 2          \* raw section sizes are 0..MaxWeight
HeavyWeight == 40       \* or HeavyWeight, which dwarfs the others
MaxItems == 2           \* classes, and functions, in one analysis

Files == {"a.py", "b.py"}

NoRow == -1            \* no row for the file in code_files
MainThread == "main"   \* the thread that constructed CodeDatabase (ui/main_window.py:50)

(***************************************************************************)
(* Characters and text.                                                    *)
(***************************************************************************)
Lower(c) ==
    CASE c = "A" -> "a"
      [] c = "B" -> "b"
      [] c = "F" -> "f"
      [] c = "M" -> "m"
      [] OTHER -> c

RECURSIVE LStrip(_)
LStrip(s) == IF s # <<>> /\ Head(s) = " " THEN LStrip(Tail(s)) ELSE s

RECURSIVE RStrip(_)
RStrip(s) ==
    IF s # <<>> /\ s[Len(s)] = " " THEN RStrip(SubSeq(s, 1, Len(s) - 1)) ELSE s

Strip(s) == RStrip(LStrip(s))

StartsWith(s, p) == Len(s) >= Len(p) /\ SubSeq(s, 1, Len(p)) = p

\* s.split("(")[0]
RECURSIVE BeforeParen(_)
BeforeParen(s) ==
    IF s = <<>> \/ Head(s) = "(" THEN <<>> ELSE <<Head(s)>> \o BeforeParen(Tail(s))

\* `needle in haystack` of Python strings
Contains(hay, needle) ==
    \E i \in 1..(Len(hay) - Len(needle) + 1) :
        SubSeq(hay, i, i + Len(needle) - 1) = needle

\* SQLite's LIKE: % is any run of characters, _ any one character, and
\* ASCII letters compare without regard to case.
RECURSIVE Like(_, _)
Like(p, s) ==
    IF p = <<>> THEN s = <<>>
    ELSE IF Head(p) = "%" THEN Like(Tail(p), s) \/ (s # <<>> /\ Like(p, Tail(s)))
    ELSE /\ s # <<>>
         /\ (Head(p) = "_" \/ Lower(Head(p)) = Lower(Head(s)))
         /\ Like(Tail(p), Tail(s))

\* (mutant) "".join(lines[a-1:b])
RECURSIVE JoinLines_glued(_, _, _)
JoinLines_glued(lines, a, b) ==
    IF a > b \/ a > Len(lines) THEN ""
    ELSE IF a = b \/ a = Len(lines) THEN lines[a]
    ELSE lines[a] \o JoinLines_glued(lines, a + 1, b)

\* "\n".join(lines[a-1:b])
RECURSIVE JoinLines(_, _, _)
JoinLines(lines, a, b) ==
    IF a > b \/ a > Len(lines) THEN ""
    ELSE IF a = b \/ a = Len(lines) THEN lines[a]
    ELSE lines[a] \o "\n" \o JoinLines(lines, a + 1, b)

(***************************************************************************)
(* Source files.  A content is the text of a file (its lines, as           *)
(* str.splitlines gives them) with what ast.parse makes of it: the         *)
(* module's child nodes in source order, each with lineno and end_lineno.  *)
(***************************************************************************)
N_A == <<"A">>
N_m == <<"m">>
N_f == <<"f">>
N_import_o == <<"i", "m", "p", "o", "r", "t", " ", "o">>

Method(name, lineno, end_lineno) ==
    [name |-> name, lineno |-> lineno, end_lineno |-> end_lineno]

\* stmt: for an import node, the statement _extract_imports rebuilds
Node(kind, name, lineno, end_lineno, body, stmt) ==
    [kind |-> kind, name |-> name, lineno |-> lineno,
     end_lineno |-> end_lineno, body |-> body, stmt |-> stmt]

\* a class with a method m, and a top-level function m
ContentClass ==
    [ok    |-> TRUE,
     lines |-> <<"import o", "class A:", "    def m(self):", "        pass",
                 "def m():", "    pass">>,
     nodes |-> <<Node("import", N_import_o, 1, 1, <<>>, "import o"),
                 Node("class", N_A, 2, 4, <<Method(N_m, 3, 4)>>, ""),
                 Node("func", N_m, 5, 6, <<>>, "")>>]

\* a function defined twice, the first time on one line
ContentRedef ==
    [ok    |-> TRUE,
     lines |-> <<"def f(): return 1", "def f():", "    return 2">>,
     nodes |-> <<Node("func", N_f, 1, 1, <<>>, ""),
                 Node("func", N_f, 2, 3, <<>>, "")>>]

\* a file ast.parse rejects
ContentBroken ==
    [ok    |-> FALSE,
     lines |-> <<"def (:">>,
     nodes |-> <<>>]

ContentIds == {"class", "redef", "broken"}

ContentOf(c) ==
    CASE c = "class" -> ContentClass
      [] c = "redef" -> ContentRedef
      [] OTHER -> ContentBroken

(***************************************************************************)
(* CodeExtractor._extract_and_store: the rows handed to _store_snippet, in *)
(* the order of the calls.                                                 *)
(***************************************************************************)
Row(file, name, type, code, line_start, line_end) ==
    [file_path |-> file, name |-> name, type |-> type, code |-> code,
     line_start |-> line_start, line_end |-> line_end, char_count |-> Len(code)]

Min(a, b) == IF a <= b THEN a ELSE b

\* end_lineno is present on every node (Python 3.8 and later)
GetEndLine(node) == node.end_lineno

\* the end line after the two corrections applied to classes and functions
EndLine(node, nlines) ==
    LET e == GetEndLine(node)
    IN  Min(IF e <= node.lineno THEN nlines ELSE e, nlines)

\* a method whose range is empty ends with its class
MethodEndLine(meth, class_end, nlines) ==
    LET e == GetEndLine(meth)
    IN  Min(IF e <= meth.lineno THEN class_end ELSE e, nlines)

RECURSIVE MethodRows(_, _, _, _, _)
MethodRows(file, c, cls, class_end, j) ==
    IF j > Len(cls.body) THEN <<>>
    ELSE LET m == cls.body[j]
             n == Len(c.lines)
             e == MethodEndLine(m, class_end, n)
             row == Row(file, cls.name \o <<".">> \o m.name, "function",
                        JoinLines(c.lines, m.lineno, e), m.lineno, e)
         IN  (IF m.lineno > n THEN <<>> ELSE <<row>>)
                 \o MethodRows(file, c, cls, class_end, j + 1)

NodeRows(file, c, node, pass) ==
    LET n == Len(c.lines)
        e == EndLine(node, n)
    IN  IF node.kind # pass THEN <<>>
        ELSE IF pass = "import"
             THEN <<Row(file, node.name, "import", node.stmt, node.lineno, node.lineno)>>
        ELSE IF node.lineno > n THEN <<>>
        ELSE IF pass = "class"
             THEN <<Row(file, node.name, "class",
                        JoinLines(c.lines, node.lineno, e), node.lineno, e)>>
                    \o MethodRows(file, c, node, e, 1)
        ELSE <<Row(file, node.name, "function",
                   JoinLines(c.lines, node.lineno, e), node.lineno, e)>>

RECURSIVE PassRows(_, _, _, _)
PassRows(file, c, pass, i) ==
    IF i > Len(c.nodes) THEN <<>>
    ELSE NodeRows(file, c, c.nodes[i], pass) \o PassRows(file, c, pass, i + 1)

\* imports, then each class followed by its methods, then top-level functions
ExtractSnippets(file, c) ==
    PassRows(file, c, "import", 1) \o PassRows(file, c, "class", 1)
        \o PassRows(file, c, "func", 1)

(***************************************************************************)
(* CodeDatabase.  snip and files are the tables as the one connection sees *)
(* them; dsnip and dfiles are the tables as committed to the database file *)
(* (what any other connection reads and what survives the process); inTx   *)
(* tells whether the connection has a transaction open.  Every method      *)
(* catches what sqlite3 raises and returns False; fault names where the    *)
(* environment makes it raise: "exec" (the statement), "commit" or "none". *)
(***************************************************************************)
\* (mutant) the connection opened with check_same_thread=False
Usable_any_thread(t) == TRUE

\* sqlite3.connect(db_path) keeps check_same_thread=True: every use of the
\* connection from another thread raises ProgrammingError.
Usable(t) == t = MainThread

Commit(d) == [d EXCEPT !.dsnip = d.snip, !.dfiles = d.files, !.inTx = FALSE]

Rollback(d) == [d EXCEPT !.snip = d.dsnip, !.files = d.dfiles, !.inTx = FALSE]

Finish(d, fault) == IF fault = "commit" THEN d ELSE Commit(d)

add_code_snippet(d, t, row, fault) ==
    IF ~Usable(t) \/ fault = "exec" THEN d
    ELSE Finish([d EXCEPT !.snip = Append(@, row), !.inTx = TRUE], fault)

update_file_timestamp(d, t, file, time, fault) ==
    IF ~Usable(t) \/ fault = "exec" THEN d
    ELSE Finish([d EXCEPT !.files[file] = time, !.inTx = TRUE], fault)

\* (mutant) the DELETE matches no row
clear_file_snippets_keep(d, t, file, fault) ==
    IF ~Usable(t) \/ fault = "exec" THEN d
    ELSE Finish([d EXCEPT !.inTx = TRUE], fault)

clear_file_snippets(d, t, file, fault) ==
    IF ~Usable(t) \/ fault = "exec" THEN d
    ELSE Finish([d EXCEPT !.snip = SelectSeq(@, LAMBDA r : r.file_path # file),
                          !.inTx = TRUE], fault)

\* BEGIN inside an open transaction raises OperationalError
begin_transaction(d, t, fault) ==
    IF ~Usable(t) \/ fault # "none" \/ d.inTx THEN d
    ELSE [d EXCEPT !.inTx = TRUE]

commit_transaction(d, t, fault) ==
    IF ~Usable(t) \/ fault # "none" THEN d ELSE Commit(d)

rollback_transaction(d, t, fault) ==
    IF ~Usable(t) \/ fault # "none" THEN d ELSE Rollback(d)

\* whether the method returned True
Succeeded(t, fault) == Usable(t) /\ fault = "none"

\* (mutant) equal times count as stale
needs_update_ge(d, fsys, file, fault) ==
    IF ~fsys[file].exists THEN FALSE
    ELSE IF fault # "none" THEN TRUE
    ELSE IF d.files[file] = NoRow THEN TRUE
    ELSE fsys[file].mtime >= d.files[file]

needs_update(d, fsys, file, fault) ==
    IF ~fsys[file].exists THEN FALSE
    ELSE IF fault # "none" THEN TRUE
    ELSE IF d.files[file] = NoRow THEN TRUE
    ELSE fsys[file].mtime > d.files[file]

\* the normalisation get_code_by_name applies to the name it is given
CleanName(name) ==
    LET s == Strip(name)
    IN  IF StartsWith(s, <<"d", "e", "f", " ">>)
        THEN Strip(BeforeParen(SubSeq(s, 5, Len(s))))
        ELSE IF StartsWith(s, <<"c", "l", "a", "s", "s", " ">>)
        THEN Strip(BeforeParen(SubSeq(s, 7, Len(s))))
        ELSE s

ExactMatch(rowname, q) ==
    \/ rowname = q
    \/ Like(<<"%", ".">> \o q, rowname)
    \/ Like(<<"%", ".">> \o q \o <<"(", "%">>, rowname)

\* SELECT name, code, description, type
Selected(rows) ==
    [k \in 1..Len(rows) |->
        [name |-> rows[k].name, code |-> rows[k].code, type |-> rows[k].type]]

\* get_code_by_name(file_path, name, exact_match=True)
get_code_by_name_exact(d, file, name, fault) ==
    IF fault # "none" THEN <<>>
    ELSE Selected(SelectSeq(d.snip,
             LAMBDA r : r.file_path = file /\ ExactMatch(r.name, CleanName(name))))

\* the rows of one file in a table
RowsOfFile(table, file) == SelectSeq(table, LAMBDA r : r.file_path = file)

(***************************************************************************)
(* CodeExtractor.extract_from_file, one storage call per step.  A frame    *)
(* holds the locals of one call (file, content, i, count) and, as history, *)
(* what the claims compare with: whether a storage call failed, the        *)
(* committed rows and timestamp of the file when the call started, the     *)
(* timestamp the call wrote, and whether the file's last clean extraction  *)
(* read the same content.                                                  *)
(***************************************************************************)
NoTime == NoRow - 1

IdleFrame ==
    [pc |-> "idle", file |-> "", content |-> "", i |-> 0, count |-> 0,
     faulted |-> FALSE, oldRows |-> <<>>, oldTs |-> NoTime, newTs |-> NoTime,
     again |-> FALSE]

\* the file was opened and read (lines 38-60); the next call is update_file_timestamp
StartFrame(file, fsys, d, h) ==
    [pc |-> "ts", file |-> file, content |-> fsys[file].content, i |-> 1,
     count |-> 0, faulted |-> FALSE,
     oldRows |-> RowsOfFile(d.dsnip, file), oldTs |-> d.dfiles[file],
     newTs |-> NoTime, again |-> h = [file |-> file, content |-> fsys[file].content]]

\* what _extract_and_store will store: nothing when ast.parse raises SyntaxError
ToStore(e) ==
    IF ContentOf(e.content).ok THEN ExtractSnippets(e.file, ContentOf(e.content))
    ELSE <<>>

\* one step of the call in thread t: the new frame and the new database
FrameStep(e, d, t, fault, clock) ==
    LET bad == e.faulted \/ ~Succeeded(t, fault)
    IN  CASE e.pc = "ts" ->
                [e |-> [e EXCEPT !.pc = "clear", !.faulted = bad,
                                 !.newTs = IF Usable(t) /\ fault # "exec"
                                           THEN clock ELSE @],
                 d |-> update_file_timestamp(d, t, e.file, clock, fault)]
          [] e.pc = "clear" ->
                [e |-> [e EXCEPT !.pc = "begin", !.faulted = bad],
                 d |-> clear_file_snippets(d, t, e.file, fault)]
          [] e.pc = "begin" ->
                [e |-> [e EXCEPT !.pc = IF ToStore(e) = <<>> THEN "commit" ELSE "store",
                                 !.faulted = bad \/ d.inTx],
                 d |-> begin_transaction(d, t, fault)]
          [] e.pc = "store" ->
                [e |-> [e EXCEPT !.pc = IF e.i = Len(ToStore(e)) THEN "commit" ELSE "store",
                                 !.i = @ + 1, !.count = @ + 1, !.faulted = bad],
                 d |-> add_code_snippet(d, t, ToStore(e)[e.i], fault)]
          [] OTHER ->   \* "commit": commit_transaction, then return count
                [e |-> [e EXCEPT !.pc = "done", !.faulted = bad],
                 d |-> commit_transaction(d, t, fault)]

FaultChoices(step) ==
    IF faults = 0 THEN {"none"}
    ELSE IF step \in {"begin", "commit"} THEN {"none", "exec"}
    ELSE {"none", "exec", "commit"}

\* a query changes nothing, so its failures are not counted
ReadFaults == {"none", "exec"}

\* a lookup fails only where failures are injected
LookupFaults == IF faults = 0 THEN {"none"} ELSE ReadFaults

Spend(fault) == IF fault = "none" THEN faults ELSE faults - 1

RetNone == [op |-> "none"]

NoHist == [file |-> "", content |-> ""]

\* the return of extract_from_file, with the history of the call
RetExtract(e, d, val) ==
    [op |-> "extract", file |-> e.file, val |-> val, faulted |-> e.faulted,
     content |-> e.content, again |-> e.again,
     before |-> e.oldRows, after |-> RowsOfFile(d.dsnip, e.file),
     stored |-> Len(RowsOfFile(d.snip, e.file))]

WorkersIdle == ~workers.active

InitDb ==
    [snip |-> <<>>, files |-> [f \in Files |-> NoRow],
     dsnip |-> <<>>, dfiles |-> [f \in Files |-> NoRow], inTx |-> FALSE]

(***************************************************************************)
(* The environment: the clock, editors and the file system.                *)
(***************************************************************************)
Absent == [exists |-> FALSE, content |-> "", mtime |-> 0]

Tick ==
    /\ now < MaxTime
    /\ now' = now + 1
    /\ ret' = RetNone
    /\ UNCHANGED <<fs, db, ex, faults, hist, workers, alloc, an>>

ModifyFile(f, c) ==
    /\ fs' = [fs EXCEPT ![f] = [exists |-> TRUE, content |-> c, mtime |-> now]]
    /\ ret' = RetNone
    /\ UNCHANGED <<now, db, ex, faults, hist, workers, alloc, an>>

DeleteFile(f) ==
    /\ fs[f].exists
    /\ fs' = [fs EXCEPT ![f] = Absent]
    /\ ret' = RetNone
    /\ UNCHANGED <<now, db, ex, faults, hist, workers, alloc, an>>

(***************************************************************************)
(* The main thread (the callers in ui/).                                   *)
(***************************************************************************)
\* extract_from_file(f) up to the first storage call; a file that cannot be
\* opened returns 0 at once (lines 92-95)
ExtractStart(f) ==
    /\ ex.pc = "idle"
    /\ WorkersIdle
    /\ IF fs[f].exists
       THEN /\ ex' = StartFrame(f, fs, db, hist)
            /\ ret' = RetNone
       ELSE /\ ret' = RetExtract([StartFrame(f, fs, db, hist) EXCEPT !.content = ""],
                                 db, 0)
            /\ UNCHANGED ex
    /\ UNCHANGED <<fs, now, db, faults, hist, workers, alloc, an>>

ExtractStep ==
    /\ ex.pc \notin {"idle", "done"}
    /\ \E fault \in FaultChoices(ex.pc) :
         LET r == FrameStep(ex, db, MainThread, fault, now)
         IN  /\ db' = r.d
             /\ faults' = Spend(fault)
             /\ IF r.e.pc = "done"
                THEN /\ ex' = IdleFrame
                     /\ ret' = RetExtract(r.e, r.d, r.e.count)
                     /\ hist' = IF r.e.faulted THEN NoHist
                                ELSE [file |-> ex.file, content |-> ex.content]
                ELSE /\ ex' = r.e
                     /\ ret' = RetNone
                     /\ UNCHANGED hist
    /\ UNCHANGED <<fs, now, workers, alloc, an>>

\* CodeDatabase.needs_update(f)
NeedsUpdate(f) ==
    /\ ex.pc = "idle"
    /\ WorkersIdle
    /\ \E fault \in ReadFaults :
         ret' = [op |-> "needs_update", file |-> f, fault |-> fault,
                 exists |-> fs[f].exists, mtime |-> fs[f].mtime,
                 row |-> db.files[f],
                 val |-> needs_update(db, fs, f, fault)]
    /\ UNCHANGED <<fs, now, db, ex, faults, hist, workers, alloc, an>>

\* the names a caller looks up: the names _extract_and_store gives snippets
QueryNames == {N_A, N_m, N_f, N_A \o <<".">> \o N_m}

\* CodeDatabase.get_code_by_name(f, name, exact_match=True)
GetCodeByName(f, name) ==
    /\ ex.pc = "idle"
    /\ WorkersIdle
    /\ \E fault \in LookupFaults :
         ret' = [op |-> "lookup", file |-> f, name |-> name, fault |-> fault,
                 stored |-> IF hist.file = f THEN hist.content ELSE "",
                 rows |-> get_code_by_name_exact(db, f, name, fault)]
    /\ UNCHANGED <<fs, now, db, ex, faults, hist, workers, alloc, an>>

(***************************************************************************)
(* CodeExtractor.extract_multi_files: a ThreadPoolExecutor whose threads   *)
(* each run extract_from_file, with a CodeExtractor of their own, on the   *)
(* one CodeDatabase.  The calling thread waits in as_completed until every *)
(* file is done.                                                           *)
(***************************************************************************)
Threads == {"w1", "w2"}

PoolIdle ==
    [active |-> FALSE, queue |-> <<>>, frame |-> [w \in Threads |-> IdleFrame],
     results |-> {}]

\* the lists of distinct files a caller may pass
FileLists ==
    {<<f>> : f \in Files} \cup {<<f, g>> : <<f, g>> \in {p \in Files \X Files : p[1] # p[2]}}

\* executor.submit for every file of file_paths
ExtractMultiStart(paths) ==
    /\ ex.pc = "idle"
    /\ WorkersIdle
    /\ workers' = [PoolIdle EXCEPT !.active = TRUE, !.queue = paths]
    /\ ret' = RetNone
    /\ UNCHANGED <<fs, now, db, ex, faults, hist, alloc, an>>

\* a free thread takes the next file: process_one_file up to the first
\* storage call; a file that cannot be opened gives (file_path, False)
WorkerTake(w) ==
    /\ workers.active
    /\ workers.frame[w].pc = "idle"
    /\ workers.queue # <<>>
    /\ LET f == Head(workers.queue)
       IN  workers' =
             IF fs[f].exists
             THEN [workers EXCEPT !.queue = Tail(@),
                                  !.frame[w] = StartFrame(f, fs, db, hist)]
             ELSE [workers EXCEPT !.queue = Tail(@),
                                  !.results = @ \cup {<<f, FALSE>>}]
    /\ ret' = RetNone
    /\ UNCHANGED <<fs, now, db, ex, faults, hist, alloc, an>>

\* the next storage call of the thread; after the last one
\* process_one_file returns (file_path, count > 0)
WorkerStep(w) ==
    /\ workers.active
    /\ workers.frame[w].pc # "idle"
    /\ LET r == FrameStep(workers.frame[w], db, w, "none", now)
       IN  /\ db' = r.d
           /\ workers' =
                 IF r.e.pc = "done"
                 THEN [workers EXCEPT !.frame[w] = IdleFrame,
                                      !.results = @ \cup {<<r.e.file, r.e.count > 0>>}]
                 ELSE [workers EXCEPT !.frame[w] = r.e]
    /\ ret' = RetNone
    /\ UNCHANGED <<fs, now, ex, faults, hist, alloc, an>>

\* every future is done: extract_multi_files returns results
ExtractMultiReturn ==
    /\ workers.active
    /\ workers.queue = <<>>
    /\ \A w \in Threads : workers.frame[w].pc = "idle"
    /\ ret' = [op |-> "multi", results |-> workers.results,
               stored |-> [f \in Files |-> RowsOfFile(db.dsnip, f)]]
    /\ workers' = PoolIdle
    /\ UNCHANGED <<fs, now, db, ex, faults, hist, alloc, an>>

(***************************************************************************)
(* TokenBudgetManager.allocate_budget.  Python computes in floating point; *)
(* the model computes the same expressions exactly, as fractions over one  *)
(* common denominator.  With W the sum of the ratios and n the number of   *)
(* sections, every quantity is a whole number of 1/(20*W*n) tokens and the *)
(* division of the excess by n is exact.  Ratios are given as whole        *)
(* numbers: normalisation makes their scale irrelevant.                    *)
(***************************************************************************)
Sections == {"directory", "classes", "functions", "imports", "call_graph", "dependencies"}

RECURSIVE SumOver(_, _)
SumOver(f, S) ==
    IF S = {} THEN 0
    ELSE LET x == CHOOSE y \in S : TRUE IN f[x] + SumOver(f, S \ {x})

Max(a, b) == IF a >= b THEN a ELSE b

\* the unit: 1 token is Denominator(ratios) units
Denominator(ratios) == 20 * SumOver(ratios, DOMAIN ratios) * Cardinality(DOMAIN ratios)

\* (mutant) min_budget = total_budget * 0.1
MinBudget_tenth(total_budget, ratios) == (total_budget * Denominator(ratios)) \div 10

\* min_budget = total_budget * 0.05
MinBudget(total_budget, ratios) == (total_budget * Denominator(ratios)) \div 20

\* lines 156-167: the proportional shares, the small ones raised to min_budget
Proportional(total_budget, ratios) ==
    LET n == Cardinality(DOMAIN ratios)
        lo == MinBudget(total_budget, ratios)
    IN  [k \in DOMAIN ratios |->
            LET share == total_budget * ratios[k] * 20 * n
            IN  IF share < lo THEN lo ELSE share]

\* (mutant) the excess is subtracted without regard to min_budget
Adjusted_unfloored(total_budget, ratios, allocation) ==
    LET n == Cardinality(DOMAIN ratios)
        total == SumOver(allocation, DOMAIN allocation)
        whole == total_budget * Denominator(ratios)
    IN  IF total > whole
        THEN [k \in DOMAIN allocation |-> allocation[k] - ((total - whole) \div n)]
        ELSE allocation

\* lines 169-176: an even share of the excess taken from every section
Adjusted(total_budget, ratios, allocation) ==
    LET n == Cardinality(DOMAIN ratios)
        lo == MinBudget(total_budget, ratios)
        total == SumOver(allocation, DOMAIN allocation)
        whole == total_budget * Denominator(ratios)
    IN  IF total > whole
        THEN [k \in DOMAIN allocation |->
                 Max(lo, allocation[k] - ((total - whole) \div n))]
        ELSE allocation

\* the sum of the ratios is 0: v/total_ratio raises ZeroDivisionError
Raises(ratios) == SumOver(ratios, DOMAIN ratios) = 0

allocate_budget(total_budget, ratios) ==
    Adjusted(total_budget, ratios, Proportional(total_budget, ratios))

AllocIdle == [pc |-> "idle"]

AnIdle == [op |-> "none", pc |-> "idle"]

Budgets == (0 - MaxNegBudget)..MaxBudget

Weights == 0..MaxWeight \cup {HeavyWeight}

\* allocate_budget up to the loop that raises small sections (line 167)
RaiseFloors ==
    /\ alloc.pc = "call"
    /\ alloc' = IF Raises(alloc.ratios)
                THEN [alloc EXCEPT !.pc = "raised"]
                ELSE [alloc EXCEPT !.pc = "floored",
                                   !.quota = Proportional(alloc.budget, alloc.ratios)]
    /\ UNCHANGED <<fs, now, db, ex, faults, ret, hist, workers, an>>

\* the rest of allocate_budget: the adjustment and the return
SubtractExcess ==
    /\ alloc.pc = "floored"
    /\ alloc' = [alloc EXCEPT !.pc = "done",
                              !.quota = Adjusted(alloc.budget, alloc.ratios, alloc.quota)]
    /\ UNCHANGED <<fs, now, db, ex, faults, ret, hist, workers, an>>

\* nothing stored, nothing running
StoreIdle ==
    /\ fs = [f \in Files |-> Absent]
    /\ now = 0
    /\ db = InitDb
    /\ ex = IdleFrame
    /\ faults = 0
    /\ ret = RetNone
    /\ hist = NoHist
    /\ workers = PoolIdle

InitBudget ==
    /\ StoreIdle
    /\ an = AnIdle
    /\ alloc \in [pc : {"call"}, budget : Budgets, ratios : [Sections -> Weights],
                   quota : {[k \in Sections |-> 0]}]

NextBudget == RaiseFloors \/ SubtractExcess

SpecBudget == InitBudget /\ [][NextBudget]_vars

\* allocate_budget(total_budget, {'A': a, 'B': b})
ShareBudgets == 0..MaxBudget \cup {100}

ShareWeights == 0..MaxWeight \cup {20, 80}

InitShares ==
    /\ StoreIdle
    /\ an = AnIdle
    /\ alloc \in [pc : {"call"}, budget : ShareBudgets, ratios : [{"A", "B"} -> ShareWeights],
                   quota : {[k \in {"A", "B"} |-> 0]}]

SpecShares == InitShares /\ [][NextBudget]_vars

(***************************************************************************)
(* LLMContextOptimizer.optimize.  A class is a dict with a name and a list *)
(* of methods, a function a dict with a name and a list of parameters;     *)
(* the model keeps the name and the length of the list.  The analysis has  *)
(* no extended_analysis, so call_graph is [] and dependencies is {}.       *)
(* _calculate_size counts characters and divides by 4: sizes are kept in   *)
(* characters and compared with the quotas by cross-multiplication.  The   *)
(* lists of the result hold the positions of the chosen dicts in the       *)
(* analysis (Python keeps references to them).                             *)
(***************************************************************************)
N_B == <<"B">>
N_g == <<"g">>

\* estimate_tokens, times 4
Chars(text) == Len(text)

\* _calculate_size of {'name': 'm', 'parameters': []}, and of {'name': 'x'}
MemberChars == Chars("name") + 1

\* _calculate_size of a class dict, times 4
ClassChars(cls) ==
    Chars("name") + Chars(cls.name) + Chars("methods") + cls.methods * MemberChars

\* _calculate_size of a function dict, times 4
FuncChars(func) ==
    Chars("name") + Chars(func.name) + Chars("parameters") + func.parameters * MemberChars

RECURSIVE ListChars(_)
ListChars(strings) ==
    IF strings = <<>> THEN 0 ELSE Chars(Head(strings)) + ListChars(Tail(strings))

RECURSIVE ClassesChars(_)
ClassesChars(classes) ==
    IF classes = <<>> THEN 0 ELSE ClassChars(Head(classes)) + ClassesChars(Tail(classes))

RECURSIVE FuncsChars(_)
FuncsChars(functions) ==
    IF functions = <<>> THEN 0 ELSE FuncChars(Head(functions)) + FuncsChars(Tail(functions))

\* any(focus in name for focus in focus_classes)
AnyFocus(name, focus_classes) ==
    \E i \in 1..Len(focus_classes) : Contains(name, focus_classes[i])

\* ImportanceScorer.score_class with dependencies = {} and no 'extends'
score_class(cls, focus_classes) ==
    (IF AnyFocus(cls.name, focus_classes) THEN 100 ELSE 0) + cls.methods * 2

\* ImportanceScorer.score_function with dependencies = {} and no inner
\* functions, times 2 (a parameter counts 1.5)
score_function(func) ==
    func.parameters * 3
    + (IF func.name = <<"m", "a", "i", "n">> \/ Contains(func.name, <<"i", "n", "i", "t">>)
       THEN 20 ELSE 0)

\* sorted(scored, key=score, reverse=True): equal scores keep their order
RECURSIVE Insert(_, _)
Insert(sorted, pair) ==
    IF sorted = <<>> THEN <<pair>>
    ELSE IF Head(sorted)[2] >= pair[2] THEN <<Head(sorted)>> \o Insert(Tail(sorted), pair)
    ELSE <<pair>> \o sorted

RECURSIVE SortedDesc(_)
SortedDesc(scored) ==
    IF scored = <<>> THEN <<>>
    ELSE Insert(SortedDesc(SubSeq(scored, 1, Len(scored) - 1)), scored[Len(scored)])

\* current_size + size <= budget, both in tokens
\* (mutant) the quota is not looked at
Fits_ignored(current_size, size, budget, unit) == current_size + size >= 0

Fits(current_size, size, budget, unit) == (current_size + size) * unit <= 4 * budget

\* lines 65-77: sorted holds <<position, score>> pairs
RECURSIVE SelectClasses(_, _, _, _, _, _)
SelectClasses(sorted, classes, current_size, classes_budget, unit, focus_classes) ==
    IF sorted = <<>> THEN <<>>
    ELSE LET i == Head(sorted)[1]
             cls_size == ClassChars(classes[i])
         IN  IF Fits(current_size, cls_size, classes_budget, unit)
             THEN <<i>> \o SelectClasses(Tail(sorted), classes, current_size + cls_size,
                                         classes_budget, unit, focus_classes)
             ELSE IF AnyFocus(classes[i].name, focus_classes)
             THEN <<i>> \o SelectClasses(Tail(sorted), classes, current_size,
                                         classes_budget, unit, focus_classes)
             ELSE SelectClasses(Tail(sorted), classes, current_size,
                                classes_budget, unit, focus_classes)

\* lines 87-95
RECURSIVE SelectFunctions(_, _, _, _, _)
SelectFunctions(sorted, functions, current_size, functions_budget, unit) ==
    IF sorted = <<>> THEN <<>>
    ELSE LET i == Head(sorted)[1]
             func_size == FuncChars(functions[i])
         IN  IF Fits(current_size, func_size, functions_budget, unit)
             THEN <<i>> \o SelectFunctions(Tail(sorted), functions, current_size + func_size,
                                           functions_budget, unit)
             ELSE SelectFunctions(Tail(sorted), functions, current_size,
                                  functions_budget, unit)

\* lines 31-36, times 4
SectionChars(code_analysis) ==
    [k \in Sections |->
        CASE k = "directory" -> ListChars(code_analysis.directory_structure)
          [] k = "classes"   -> ClassesChars(code_analysis.classes)
          [] k = "functions" -> FuncsChars(code_analysis.functions)
          [] k = "imports"   -> ListChars(code_analysis.imports)
          [] OTHER           -> 0]

\* imports[:int(budget / size of imports[0])]
OptimizedImports(imports, imports_budget, unit) ==
    IF imports = <<>> THEN <<>>
    ELSE SubSeq(imports, 1,
                Min(Len(imports), (4 * imports_budget) \div (unit * Chars(imports[1]))))

\* total_size is 0: line 44 raises ZeroDivisionError
OptimizeRaises(code_analysis) == Raises(SectionChars(code_analysis))

optimize(token_budget, focus_classes, code_analysis) ==
    LET classes == code_analysis.classes
        functions == code_analysis.functions
        ratios == SectionChars(code_analysis)
        unit == Denominator(ratios)
        budget_allocation == allocate_budget(token_budget, ratios)
        sorted_classes ==
            SortedDesc([i \in 1..Len(classes) |-> <<i, score_class(classes[i], focus_classes)>>])
        sorted_functions ==
            SortedDesc([i \in 1..Len(functions) |-> <<i, score_function(functions[i])>>])
    IN  [classes |-> SelectClasses(sorted_classes, classes, 0,
                                   budget_allocation["classes"], unit, focus_classes),
         functions |-> SelectFunctions(sorted_functions, functions, 0,
                                       budget_allocation["functions"], unit),
         imports |-> OptimizedImports(code_analysis.imports,
                                      budget_allocation["imports"], unit),
         quota |-> budget_allocation,
         unit |-> unit]

NoResult ==
    [classes |-> <<>>, functions |-> <<>>, imports |-> <<>>,
     quota |-> [k \in Sections |-> 0], unit |-> 0]

Optimize ==
    /\ alloc.pc = "optimize"
    /\ alloc' = IF OptimizeRaises(alloc.code_analysis)
                THEN [alloc EXCEPT !.pc = "raised"]
                ELSE [alloc EXCEPT !.pc = "optimized",
                                   !.result = optimize(alloc.token_budget, alloc.focus_classes,
                                                       alloc.code_analysis)]
    /\ UNCHANGED <<fs, now, db, ex, faults, ret, hist, workers, an>>

\* the sequences over S of length at most n
SeqUpTo(S, n) == UNION {[1..k -> S] : k \in 0..n}

\* a class with no method or one, a function with no parameter or one
ClassDicts == [name : {N_A, N_B}, methods : {0, 1}]

FuncDicts == [name : {N_f, N_g}, parameters : {0, 1}]

FocusLists == {<<>>, <<N_A>>, <<N_f>>, <<N_A, N_f>>}

\* an empty project, or one directory and two imports
Surroundings ==
    {[directory_structure |-> <<>>, imports |-> <<>>],
     [directory_structure |-> <<"src/">>, imports |-> <<"os", "sys">>]}

Analyses ==
    {[directory_structure |-> e.directory_structure, classes |-> cs,
      functions |-> funcs, imports |-> e.imports] :
        e \in Surroundings, cs \in SeqUpTo(ClassDicts, MaxItems),
        funcs \in SeqUpTo(FuncDicts, MaxItems)}

InitSelect ==
    /\ StoreIdle
    /\ an = AnIdle
    /\ alloc \in [pc : {"optimize"}, token_budget : 0..MaxBudget, focus_classes : FocusLists,
                  code_analysis : Analyses, result : {NoResult}]

NextSelect == Optimize

SpecSelect == InitSelect /\ [][NextSelect]_vars

InitStore ==
    /\ fs \in [Files -> [exists : {TRUE}, content : ContentIds, mtime : {0}]]
    /\ now = 0
    /\ db = InitDb
    /\ ex = IdleFrame
    /\ ret = RetNone
    /\ hist = NoHist
    /\ workers = PoolIdle
    /\ alloc = AllocIdle
    /\ an = AnIdle

\* the store in normal operation: no storage call fails
Init == InitStore /\ faults = 0

\* files are edited, deleted, extracted and looked up
Next ==
    \/ \E f \in Files, c \in ContentIds : ModifyFile(f, c)
    \/ \E f \in Files : DeleteFile(f)
    \/ \E f \in Files : ExtractStart(f)
    \/ ExtractStep
    \/ \E f \in Files, name \in QueryNames : GetCodeByName(f, name)

Spec == Init /\ [][Next]_vars

\* the same with the clock running, and needs_update asked instead of lookups
NextClock ==
    \/ Tick
    \/ \E f \in Files, c \in ContentIds : ModifyFile(f, c)
    \/ \E f \in Files : DeleteFile(f)
    \/ \E f \in Files : ExtractStart(f)
    \/ ExtractStep
    \/ \E f \in Files : NeedsUpdate(f)

SpecClock == Init /\ [][NextClock]_vars

\* the store with up to MaxFaults failing storage calls
InitFault == InitStore /\ faults = MaxFaults

NextFault ==
    \/ \E f \in Files, c \in ContentIds : ModifyFile(f, c)
    \/ \E f \in Files : ExtractStart(f)
    \/ ExtractStep
    \/ \E f \in Files, name \in QueryNames : GetCodeByName(f, name)

SpecFault == InitFault /\ [][NextFault]_vars

\* the store filled by the main thread and then handed to the pool
NextMulti ==
    \/ \E f \in Files : ExtractStart(f)
    \/ ExtractStep
    \/ \E paths \in FileLists : ExtractMultiStart(paths)
    \/ \E w \in Threads : WorkerTake(w)
    \/ \E w \in Threads : WorkerStep(w)
    \/ ExtractMultiReturn

SpecMulti == Init /\ [][NextMulti]_vars

(***************************************************************************)
(* The analysis of a batch of files: CodeAnalyzer.analyze_files            *)
(* (core/analyzer.py) and step 1 of perform_extended_analysis              *)
(* (ui/analysis_handler.py).  A symbol table lists the classes, each with  *)
(* the names of its methods, and the names of the functions.  parts holds, *)
(* in the order they were added, what the call has put into its result for *)
(* each file; log holds what it has printed.                               *)
(***************************************************************************)
ClassInfo(node) ==
    [name |-> node.name, methods |-> [j \in 1..Len(node.body) |-> node.body[j].name]]

\* analyzer.py 180-183: a class found so far has a method of that name
IsMethod(classes, name) ==
    \E k \in 1..Len(classes) : \E j \in 1..Len(classes[k].methods) :
        classes[k].methods[j] = name

\* analyzer.py 134-200: ast.walk visits the module's own statements in
\* source order before anything nested; the methods it visits afterwards
\* are all methods of a class found, and are not added again
RECURSIVE AnalyzerWalk(_, _, _, _)
AnalyzerWalk(nodes, i, classes, functions) ==
    IF i > Len(nodes) THEN [classes |-> classes, functions |-> functions]
    ELSE IF nodes[i].kind = "class"
         THEN AnalyzerWalk(nodes, i + 1, Append(classes, ClassInfo(nodes[i])), functions)
    ELSE IF nodes[i].kind = "func" /\ ~IsMethod(classes, nodes[i].name)
         THEN AnalyzerWalk(nodes, i + 1, classes, Append(functions, nodes[i].name))
    ELSE AnalyzerWalk(nodes, i + 1, classes, functions)

NoTable == [classes |-> <<>>, functions |-> <<>>]

\* CodeAnalyzer.analyze_code: the symbols found, or the text of the error
CodeAnalyzer_analyze_code(c) ==
    IF c.ok THEN [error |-> "none", table |-> AnalyzerWalk(c.nodes, 1, <<>>, <<>>)]
    ELSE [error |-> "syntax", table |-> NoTable]

\* AstroidAnalyzer.analyze_code: the classes and functions of tree.body
RECURSIVE AstroidWalk(_, _, _, _)
AstroidWalk(nodes, i, classes, functions) ==
    IF i > Len(nodes) THEN [classes |-> classes, functions |-> functions]
    ELSE IF nodes[i].kind = "class"
         THEN AstroidWalk(nodes, i + 1, Append(classes, ClassInfo(nodes[i])), functions)
    ELSE IF nodes[i].kind = "func"
         THEN AstroidWalk(nodes, i + 1, classes, Append(functions, nodes[i].name))
    ELSE AstroidWalk(nodes, i + 1, classes, functions)

AstroidAnalyzer_analyze_code(c) == AstroidWalk(c.nodes, 1, <<>>, <<>>)

\* sorted(py_files), for the files of one directory
SortedPaths(paths) ==
    IF Len(paths) = 2 /\ paths[1] = "b.py" THEN <<paths[2], paths[1]>> ELSE paths

\* analyze_files(file_paths) up to the loop over the files
AnalyzeFilesStart(paths) ==
    /\ an.pc = "idle"
    /\ an' = [op |-> "analyze_files", pc |-> "loop", paths |-> SortedPaths(paths),
              i |-> 1, parts |-> <<>>, log |-> <<>>, read |-> FALSE]
    /\ UNCHANGED <<fs, now, db, ex, faults, ret, hist, workers, alloc>>

\* analyzer.py 84-106: one file of the loop
AnalyzeFilesStep ==
    /\ an.op = "analyze_files" /\ an.pc = "loop" /\ an.i <= Len(an.paths)
    /\ LET f == an.paths[an.i]
           r == CodeAnalyzer_analyze_code(ContentOf(fs[f].content))
       IN  an' = IF fs[f].exists
                 THEN [an EXCEPT !.i = @ + 1, !.read = TRUE,
                                 !.parts = Append(@, [file |-> f, error |-> r.error,
                                                      table |-> r.table])]
                 ELSE [an EXCEPT !.i = @ + 1,
                                 !.parts = Append(@, [file |-> f, error |-> "read",
                                                      table |-> NoTable])]
    /\ UNCHANGED <<fs, now, db, ex, faults, ret, hist, workers, alloc>>

\* analyzer.py 110-119: lines 111-114 read file_name, code and result, which
\* exist only if a file of the batch was read
AnalyzeFilesReturn ==
    /\ an.op = "analyze_files" /\ an.pc = "loop" /\ an.i > Len(an.paths)
    /\ an' = [an EXCEPT !.pc = IF an.read THEN "returned" ELSE "raised"]
    /\ UNCHANGED <<fs, now, db, ex, faults, ret, hist, workers, alloc>>

\* perform_extended_analysis(python_files) up to the loop of step 1
ExtendedStart(paths) ==
    /\ an.pc = "idle"
    /\ ex.pc = "idle"
    /\ an' = [op |-> "extended", pc |-> "loop", paths |-> paths,
              i |-> 1, parts |-> <<>>, log |-> <<>>, read |-> FALSE]
    /\ UNCHANGED <<fs, now, db, ex, faults, ret, hist, workers, alloc>>

\* analysis_handler.py 170-222: one file of the loop.  A file that cannot
\* be opened or compiled is printed and left out of analysis_results.
ExtendedStep ==
    /\ an.op = "extended" /\ an.pc = "loop" /\ an.i <= Len(an.paths)
    /\ LET f == an.paths[an.i]
           c == ContentOf(fs[f].content)
       IN  IF ~fs[f].exists
           THEN /\ an' = [an EXCEPT !.i = @ + 1, !.log = Append(@, <<"error", f>>)]
                /\ UNCHANGED db
           ELSE IF ~c.ok
           THEN /\ an' = [an EXCEPT !.i = @ + 1, !.read = TRUE,
                                    !.log = Append(@, <<"skip", f>>)]
                /\ UNCHANGED db
           ELSE /\ an' = [an EXCEPT !.i = @ + 1, !.read = TRUE,
                                    !.parts = Append(@, [file |-> f, error |-> "none",
                                                         table |-> AstroidAnalyzer_analyze_code(c)])]
                /\ db' = update_file_timestamp(db, MainThread, f, now, "none")
    /\ UNCHANGED <<fs, now, ex, faults, ret, hist, workers, alloc>>

\* analysis_handler.py 224-322: the report is built from analysis_results
ExtendedReturn ==
    /\ an.op = "extended" /\ an.pc = "loop" /\ an.i > Len(an.paths)
    /\ an' = [an EXCEPT !.pc = "returned"]
    /\ UNCHANGED <<fs, now, db, ex, faults, ret, hist, workers, alloc>>

\* the files on disk when a batch is analysed: any content, or no file
InitBatch ==
    /\ fs \in [Files -> {Absent} \cup [exists : {TRUE}, content : ContentIds, mtime : {0}]]
    /\ now = 0
    /\ db = InitDb
    /\ ex = IdleFrame
    /\ faults = 0
    /\ ret = RetNone
    /\ hist = NoHist
    /\ workers = PoolIdle
    /\ alloc = AllocIdle
    /\ an = AnIdle

NextBatch ==
    \/ \E paths \in FileLists : AnalyzeFilesStart(paths)
    \/ AnalyzeFilesStep
    \/ AnalyzeFilesReturn
    \/ \E paths \in FileLists : ExtendedStart(paths)
    \/ ExtendedStep
    \/ ExtendedReturn

SpecBatch == InitBatch /\ [][NextBatch]_vars

(***************************************************************************)
(* CodeElementScorer (llm/importance.py).  Weights and scores are kept in  *)
(* tenths.  The scorer reads of a function its name, the number of its     *)
(* parameters and of its inner functions and whether it has a docstring;   *)
(* of a class its name, the number of its methods and whether it has base  *)
(* classes or a docstring.  dependencies is a list of <<caller, callees>>, *)
(* callees a list of names.                                                *)
(***************************************************************************)
N_main == <<"m", "a", "i", "n">>
N_helper == <<"h", "e", "l", "p", "e", "r">>

\* CodeElementScorer.__init__: self.weights, in tenths
DefaultWeights ==
    [reference_count |-> 30, complexity |-> 20, name_importance |-> 15, docstring |-> 10,
     inheritance |-> 25, parameter_count |-> 10, inner_element_count |-> 12, is_focus |-> 100]

\* str.lower()
LowerName(name) == [i \in 1..Len(name) |-> Lower(name[i])]

\* the names of _is_important_name, in lower case
ImportantNames ==
    {N_main, <<"i", "n", "i", "t">>, <<"a", "p", "p">>,
     <<"m", "a", "n", "a", "g", "e", "r">>,
     <<"c", "o", "n", "t", "r", "o", "l", "l", "e", "r">>,
     <<"s", "e", "r", "v", "i", "c", "e">>, <<"r", "u", "n">>}

\* (mutant) no name is important
IsImportantName_never(name) == FALSE

\* _is_important_name
IsImportantName(name) == \E imp \in ImportantNames : Contains(LowerName(name), imp)

\* _count_references: the callees, over all callers, that contain the name
RECURSIVE CountIn(_, _)
CountIn(name, callees) ==
    IF callees = <<>> THEN 0
    ELSE (IF Contains(Head(callees), name) THEN 1 ELSE 0) + CountIn(name, Tail(callees))

RECURSIVE CountReferences(_, _)
CountReferences(name, dependencies) ==
    IF dependencies = <<>> THEN 0
    ELSE CountIn(name, Head(dependencies)[2]) + CountReferences(name, Tail(dependencies))

\* CodeElementScorer.score_function
Scorer_score_function(weights, func_info, focus_functions, dependencies) ==
    (IF AnyFocus(func_info.name, focus_functions) THEN weights.is_focus ELSE 0)
    + func_info.parameters * weights.parameter_count
    + func_info.inner_functions * weights.inner_element_count
    + (IF func_info.docstring THEN weights.docstring ELSE 0)
    + CountReferences(func_info.name, dependencies) * weights.reference_count
    + (IF IsImportantName(func_info.name) THEN weights.name_importance * 2 ELSE 0)

\* CodeElementScorer.score_class
Scorer_score_class(weights, cls_info, focus_classes, dependencies) ==
    (IF AnyFocus(cls_info.name, focus_classes) THEN weights.is_focus ELSE 0)
    + cls_info.methods * weights.complexity
    + (IF cls_info.base_classes THEN weights.inheritance ELSE 0)
    + (IF cls_info.docstring THEN weights.docstring ELSE 0)
    + CountReferences(cls_info.name, dependencies) * weights.reference_count
    + (IF IsImportantName(cls_info.name) THEN weights.name_importance ELSE 0)

\* the functions and classes a caller has scored
FuncInfos ==
    [name : {N_main, N_helper, N_f}, parameters : {0, 1}, inner_functions : {0, 1},
     docstring : BOOLEAN]

ClassInfos ==
    [name : {N_A, N_B}, methods : {0, 1}, base_classes : BOOLEAN, docstring : BOOLEAN]

\* no call edge, a call of main by f, calls of helper by main and by f
DependencyLists ==
    {<<>>, << <<N_f, <<N_main>>>> >>,
     << <<N_main, <<N_helper>>>>, <<N_f, <<N_helper, N_f>>>> >>}

FocusFragments == {<<>>, <<N_main>>, <<N_f>>, <<N_A>>}

\* score_function(func_info, focus_functions, dependencies)
ScoreFunction ==
    /\ an.op = "score_function" /\ an.pc = "call"
    /\ an' = [an EXCEPT !.pc = "returned",
                        !.score = Scorer_score_function(an.weights, an.info, an.focus,
                                                        an.dependencies)]
    /\ UNCHANGED <<fs, now, db, ex, faults, ret, hist, workers, alloc>>

\* score_class(cls_info, focus_classes, dependencies)
ScoreClass ==
    /\ an.op = "score_class" /\ an.pc = "call"
    /\ an' = [an EXCEPT !.pc = "returned",
                        !.score = Scorer_score_class(an.weights, an.info, an.focus,
                                                     an.dependencies)]
    /\ UNCHANGED <<fs, now, db, ex, faults, ret, hist, workers, alloc>>

InitScore ==
    /\ StoreIdle
    /\ alloc = AllocIdle
    /\ \/ an \in [op : {"score_function"}, pc : {"call"}, weights : {DefaultWeights},
                  info : FuncInfos, focus : FocusFragments,
                  dependencies : DependencyLists, score : {0}]
       \/ an \in [op : {"score_class"}, pc : {"call"}, weights : {DefaultWeights},
                  info : ClassInfos, focus : FocusFragments,
                  dependencies : DependencyLists, score : {0}]

NextScore == ScoreFunction \/ ScoreClass

SpecScore == InitScore /\ [][NextScore]_vars

(***************************************************************************)
(* Call edges (core/dependency.py, core/astroid_analyzer.py).  A module is *)
(* the list of the functions and classes of its body; of a function or     *)
(* method body the model keeps the call expressions found anywhere in it,  *)
(* in source order.  A call is f(...) (shape "name"), o.f(...) with o a    *)
(* name (shape "attribute", self.f(...) when o is self), or a call of any  *)
(* other expression (shape "other").  Qualified names are lists of name    *)
(* parts: <<module, function>> or <<module, class, method>>.               *)
(***************************************************************************)
CallName(n) == [shape |-> "name", obj |-> "", name |-> n]
CallAttr(o, n) == [shape |-> "attribute", obj |-> o, name |-> n]
CallOther == [shape |-> "other", obj |-> "", name |-> ""]
Def(n, calls) == [kind |-> "def", name |-> n, calls |-> calls, methods |-> <<>>]
Meth(n, calls) == [name |-> n, calls |-> calls]
ClassDef(n, methods) == [kind |-> "class", name |-> n, calls |-> <<>>, methods |-> methods]

\* def helper(): pass / def main(): helper()
ModuleHelperMain ==
    [ok |-> TRUE, body |-> <<Def("helper", <<>>), Def("main", <<CallName("helper")>>)>>]

\* def helper(): pass
ModuleHelper == [ok |-> TRUE, body |-> <<Def("helper", <<>>)>>]

\* def main(): pass
ModuleMain == [ok |-> TRUE, body |-> <<Def("main", <<>>)>>]

\* class C with run (self.step(); self.missing(); other.step(); d[0]();
\* helper()) and step; class D with step and go (self.run()); a function
\* free (self.step())
ModuleClasses ==
    [ok |-> TRUE,
     body |-> <<ClassDef("C", <<Meth("run", <<CallAttr("self", "step"),
                                              CallAttr("self", "missing"),
                                              CallAttr("other", "step"), CallOther,
                                              CallName("helper")>>),
                                Meth("step", <<>>)>>),
                ClassDef("D", <<Meth("step", <<>>),
                                Meth("go", <<CallAttr("self", "run")>>)>>),
                Def("free", <<CallAttr("self", "step")>>)>>]

\* a file that does not compile
ModuleSyntaxError == [ok |-> FALSE, body |-> <<>>]

CallContentIds == {"helper_main", "helper", "main", "classes", "syntax_error"}

CallContentOf(id) ==
    CASE id = "helper_main" -> ModuleHelperMain
      [] id = "helper" -> ModuleHelper
      [] id = "main" -> ModuleMain
      [] id = "classes" -> ModuleClasses
      [] OTHER -> ModuleSyntaxError

\* os.path.basename(file_path).replace('.py', '')
ModuleName(f) == IF f = "a.py" THEN "a" ELSE "b"

Indices(seq) == 1..Len(seq)

\* the keys module_functions[module_name] gets at dependency.py 41-55
FunctionKeys(body) ==
    {<<body[i].name>> : i \in {k \in Indices(body) : body[k].kind = "def"}}
    \cup UNION {{<<body[i].name, body[i].methods[j].name>> : j \in Indices(body[i].methods)} :
                  i \in {k \in Indices(body) : body[k].kind = "class"}}

AttributeError == "AttributeError"

\* (mutant) node.func.id
FuncName_id(call) == call.name

\* node.func.name of an ast.Name node: the node has the field id and no name
FuncName(call) == AttributeError

\* (mutant) the method is looked up in every class of the module
SelfTarget_any_class(caller_name, attr, module_functions) ==
    IF Len(caller_name) >= 3 /\ caller_name[1] \in DOMAIN module_functions
    THEN {<<caller_name[1]>> \o key :
            key \in {k \in module_functions[caller_name[1]] : Len(k) = 2 /\ k[2] = attr}}
    ELSE {}

\* dependency.py 129-136: the callee of self.attr() in caller_name
SelfTarget(caller_name, attr, module_functions) ==
    IF Len(caller_name) >= 3
    THEN LET module_name == caller_name[1]
             method_key == <<caller_name[2], attr>>
         IN  IF module_name \in DOMAIN module_functions
                /\ method_key \in module_functions[module_name]
             THEN {<<module_name>> \o method_key}
             ELSE {}
    ELSE {}

AddEdges(call_graph, caller_name, callees) ==
    IF caller_name \in DOMAIN call_graph
    THEN [call_graph EXCEPT ![caller_name] = @ \cup callees]
    ELSE call_graph

\* _find_calls_in_node at one Call node
FindCall(call, caller_name, module_functions, call_graph) ==
    IF call.shape = "name"
    THEN LET called_name == FuncName(call)
         IN  IF called_name = AttributeError
             THEN call_graph
             ELSE AddEdges(call_graph, caller_name,
                           {<<m, called_name>> :
                              m \in {n \in DOMAIN module_functions :
                                       <<called_name>> \in module_functions[n]}})
    ELSE IF call.shape = "attribute" /\ call.obj = "self"
    THEN AddEdges(call_graph, caller_name, SelfTarget(caller_name, call.name, module_functions))
    ELSE call_graph

\* _find_calls_in_node over the calls of one body
RECURSIVE FindCalls(_, _, _, _)
FindCalls(calls, caller_name, module_functions, call_graph) ==
    IF calls = <<>> THEN call_graph
    ELSE FindCalls(Tail(calls), caller_name, module_functions,
                   FindCall(Head(calls), caller_name, module_functions, call_graph))

RECURSIVE MethodCalls(_, _, _, _, _)
MethodCalls(methods, module_name, class_name, module_functions, call_graph) ==
    IF methods = <<>> THEN call_graph
    ELSE MethodCalls(Tail(methods), module_name, class_name, module_functions,
                     FindCalls(Head(methods).calls,
                               <<module_name, class_name, Head(methods).name>>,
                               module_functions, call_graph))

\* _analyze_module_calls
RECURSIVE AnalyzeModuleCalls(_, _, _, _)
AnalyzeModuleCalls(body, module_name, module_functions, call_graph) ==
    IF body = <<>> THEN call_graph
    ELSE LET node == Head(body)
         IN  AnalyzeModuleCalls(Tail(body), module_name, module_functions,
               IF node.kind = "def"
               THEN FindCalls(node.calls, <<module_name, node.name>>, module_functions,
                              call_graph)
               ELSE MethodCalls(node.methods, module_name, node.name, module_functions,
                                call_graph))

NoEdges == [n \in {} |-> {}]

\* generate_call_graph(python_files) up to the first loop
CallGraphStart(paths) ==
    /\ an.pc = "idle"
    /\ an' = IF paths = <<>>
             THEN [op |-> "call_graph", pc |-> "returned", paths |-> paths, i |-> 1,
                   modules |-> <<>>, parsed |-> NoEdges, module_functions |-> NoEdges,
                   call_graph |-> NoEdges, log |-> <<>>, result |-> "no files"]
             ELSE [op |-> "call_graph", pc |-> "register", paths |-> paths, i |-> 1,
                   modules |-> <<>>, parsed |-> NoEdges, module_functions |-> NoEdges,
                   call_graph |-> NoEdges, log |-> <<>>, result |-> "none"]
    /\ UNCHANGED <<fs, now, db, ex, faults, ret, hist, workers, alloc>>

\* (mutant) the calls of a module are analysed as soon as it is registered
RegisterStep_eager ==
    /\ an.op = "call_graph" /\ an.pc = "register" /\ an.i <= Len(an.paths)
    /\ LET f == an.paths[an.i]
           c == CallContentOf(fs[f].content)
           module_name == ModuleName(f)
           keys == FunctionKeys(c.body)
           names == {<<module_name>> \o k : k \in keys}
           table == [m \in DOMAIN an.module_functions \cup {module_name} |->
                       IF m = module_name THEN keys ELSE an.module_functions[m]]
       IN  an' =
             IF ~fs[f].exists \/ ~c.ok
             THEN [an EXCEPT !.i = @ + 1, !.log = Append(@, <<"skip", f>>)]
             ELSE [an EXCEPT !.i = @ + 1,
                             !.modules = Append(@, module_name),
                             !.parsed = [m \in DOMAIN @ \cup {module_name} |->
                                           IF m = module_name THEN fs[f].content ELSE @[m]],
                             !.module_functions = table,
                             !.call_graph =
                                 AnalyzeModuleCalls(c.body, module_name, table,
                                     [n \in DOMAIN @ \cup names |->
                                        IF n \in names THEN {} ELSE @[n]])]
    /\ UNCHANGED <<fs, now, db, ex, faults, ret, hist, workers, alloc>>

\* dependency.py 21-58: one file of Step 1
RegisterStep ==
    /\ an.op = "call_graph" /\ an.pc = "register" /\ an.i <= Len(an.paths)
    /\ LET f == an.paths[an.i]
           c == CallContentOf(fs[f].content)
           module_name == ModuleName(f)
           keys == FunctionKeys(c.body)
           names == {<<module_name>> \o k : k \in keys}
       IN  an' =
             IF ~fs[f].exists
             THEN [an EXCEPT !.i = @ + 1, !.log = Append(@, <<"error", f>>)]
             ELSE IF ~c.ok
             THEN [an EXCEPT !.i = @ + 1, !.log = Append(@, <<"skip", f>>)]
             ELSE [an EXCEPT !.i = @ + 1,
                             !.modules = IF \E k \in Indices(@) : @[k] = module_name
                                         THEN @ ELSE Append(@, module_name),
                             !.parsed = [m \in DOMAIN @ \cup {module_name} |->
                                           IF m = module_name THEN fs[f].content ELSE @[m]],
                             !.module_functions =
                                         [m \in DOMAIN @ \cup {module_name} |->
                                           IF m = module_name THEN keys ELSE @[m]],
                             !.call_graph = [n \in DOMAIN @ \cup names |->
                                               IF n \in names THEN {} ELSE @[n]]]
    /\ UNCHANGED <<fs, now, db, ex, faults, ret, hist, workers, alloc>>

\* dependency.py 61: Step 1 is over
RegisterDone ==
    /\ an.op = "call_graph" /\ an.pc = "register" /\ an.i > Len(an.paths)
    /\ an' = [an EXCEPT !.pc = "calls", !.i = 1]
    /\ UNCHANGED <<fs, now, db, ex, faults, ret, hist, workers, alloc>>

\* dependency.py 61-62: one module of Step 2
AnalyzeCallsStep ==
    /\ an.op = "call_graph" /\ an.pc = "calls" /\ an.i <= Len(an.modules)
    /\ LET module_name == an.modules[an.i]
       IN  an' = [an EXCEPT !.i = @ + 1,
                            !.call_graph =
                                AnalyzeModuleCalls(CallContentOf(an.parsed[module_name]).body,
                                                   module_name, an.module_functions, @)]
    /\ UNCHANGED <<fs, now, db, ex, faults, ret, hist, workers, alloc>>

\* dependency.py 65-80: one line "caller -> callees" for every caller
\* that calls something
CallGraphReturn ==
    /\ an.op = "call_graph" /\ an.pc = "calls" /\ an.i > Len(an.modules)
    /\ an' = [an EXCEPT !.pc = "returned",
                        !.result = {<<caller, an.call_graph[caller]>> :
                                      caller \in {n \in DOMAIN an.call_graph :
                                                    an.call_graph[n] # {}}}]
    /\ UNCHANGED <<fs, now, db, ex, faults, ret, hist, workers, alloc>>

\* _find_dependencies: the name recorded for a call, if any
DependencyNames(calls) ==
    {<<calls[i].name>> : i \in {k \in Indices(calls) : calls[k].shape = "name"}}
    \cup {<<calls[i].obj, calls[i].name>> :
            i \in {k \in Indices(calls) : calls[k].shape = "attribute"}}

\* _analyze_dependencies: caller (function name or Class.method) -> names
FileDependencies(body) ==
    LET defs == {i \in Indices(body) : body[i].kind = "def"}
        meths == UNION {{<<i, j>> : j \in Indices(body[i].methods)} :
                          i \in {k \in Indices(body) : body[k].kind = "class"}}
        callers == {<<body[i].name>> : i \in defs}
                   \cup {<<body[p[1]].name, body[p[1]].methods[p[2]].name>> : p \in meths}
    IN  [c \in callers |->
           UNION ({DependencyNames(body[i].calls) : i \in {k \in defs : <<body[k].name>> = c}}
                  \cup {DependencyNames(body[p[1]].methods[p[2]].calls) :
                          p \in {q \in meths :
                                   <<body[q[1]].name, body[q[1]].methods[q[2]].name>> = c}})]

\* dict.update
Update(d, e) == [k \in DOMAIN d \cup DOMAIN e |-> IF k \in DOMAIN e THEN e[k] ELSE d[k]]

\* perform_extended_analysis(python_files): the call edges it collects
DependenciesStart(paths) ==
    /\ an.pc = "idle"
    /\ ex.pc = "idle"
    /\ an' = IF paths = <<>>
             THEN [op |-> "dependencies", pc |-> "returned", paths |-> paths, i |-> 1,
                   all_dependencies |-> NoEdges, log |-> <<>>]
             ELSE [op |-> "dependencies", pc |-> "loop", paths |-> paths, i |-> 1,
                   all_dependencies |-> NoEdges, log |-> <<>>]
    /\ UNCHANGED <<fs, now, db, ex, faults, ret, hist, workers, alloc>>

\* analysis_handler.py 170-222: one file of the loop, its dependencies
\* replacing those recorded for the same caller names
DependenciesStep ==
    /\ an.op = "dependencies" /\ an.pc = "loop" /\ an.i <= Len(an.paths)
    /\ LET f == an.paths[an.i]
           c == CallContentOf(fs[f].content)
       IN  IF ~fs[f].exists
           THEN /\ an' = [an EXCEPT !.i = @ + 1, !.log = Append(@, <<"error", f>>)]
                /\ UNCHANGED db
           ELSE IF ~c.ok
           THEN /\ an' = [an EXCEPT !.i = @ + 1, !.log = Append(@, <<"skip", f>>)]
                /\ UNCHANGED db
           ELSE /\ an' = [an EXCEPT !.i = @ + 1,
                                    !.all_dependencies = Update(@, FileDependencies(c.body))]
                /\ db' = update_file_timestamp(db, MainThread, f, now, "none")
    /\ UNCHANGED <<fs, now, ex, faults, ret, hist, workers, alloc>>

\* analysis_handler.py 227-243: callers without callees are dropped
DependenciesReturn ==
    /\ an.op = "dependencies" /\ an.pc = "loop" /\ an.i > Len(an.paths)
    /\ an' = [an EXCEPT !.pc = "returned",
                        !.all_dependencies =
                            [c \in {k \in DOMAIN @ : @[k] # {}} |-> @[c]]]
    /\ UNCHANGED <<fs, now, db, ex, faults, ret, hist, workers, alloc>>

\* the files on disk when the call edges are built
InitCalls ==
    /\ fs \in [Files -> {Absent} \cup [exists : {TRUE}, content : CallContentIds, mtime : {0}]]
    /\ now = 0
    /\ db = InitDb
    /\ ex = IdleFrame
    /\ faults = 0
    /\ ret = RetNone
    /\ hist = NoHist
    /\ workers = PoolIdle
    /\ alloc = AllocIdle
    /\ an = AnIdle

NextCalls ==
    \/ \E paths \in FileLists \cup {<<>>} : CallGraphStart(paths)
    \/ RegisterStep
    \/ RegisterDone
    \/ AnalyzeCallsStep
    \/ CallGraphReturn
    \/ \E paths \in FileLists \cup {<<>>} : DependenciesStart(paths)
    \/ DependenciesStep
    \/ DependenciesReturn

SpecCalls == InitCalls /\ [][NextCalls]_vars

(***************************************************************************)
(* CodeStructureImportanceAnalyzer.analyze_code_structure and              *)
(* LLMContextOptimizer.optimize called again and again on one analyzer and *)
(* one optimizer.  The analyzer keeps its scorer's weights and the         *)
(* dependency graph of its last call; the graph is a list of nodes in the  *)
(* order the dict got its keys, each with the sets calls and called_by.    *)
(* dependencies is a list of <<caller, callees>> in the order of the dict, *)
(* callees a list of names.                                                *)
(***************************************************************************)
MaxRuns == 3

\* LLMContextOptimizer.__init__: token_budget=4000
DefaultTokenBudget == 4000

N_call == <<"c", "a", "l", "l">>

HasNode(graph, n) == \E i \in 1..Len(graph) : graph[i].name = n

\* if n not in graph: graph[n] = {'calls': set(), 'called_by': set()}
WithNode(graph, n) ==
    IF HasNode(graph, n) THEN graph
    ELSE Append(graph, [name |-> n, calls |-> {}, called_by |-> {}])

\* graph[caller]['calls'].add(callee); graph[callee]['called_by'].add(caller)
WithEdge(graph, caller, callee) ==
    LET g == WithNode(graph, callee)
    IN  [i \in 1..Len(g) |->
           [name |-> g[i].name,
            calls |-> IF g[i].name = caller THEN g[i].calls \cup {callee} ELSE g[i].calls,
            called_by |-> IF g[i].name = callee THEN g[i].called_by \cup {caller}
                          ELSE g[i].called_by]]

RECURSIVE WithCallees(_, _, _)
WithCallees(graph, caller, callees) ==
    IF callees = <<>> THEN graph
    ELSE WithCallees(WithEdge(graph, caller, Head(callees)), caller, Tail(callees))

RECURSIVE GraphFrom(_, _)
GraphFrom(graph, dependencies) ==
    IF dependencies = <<>> THEN graph
    ELSE GraphFrom(WithCallees(WithNode(graph, Head(dependencies)[1]),
                               Head(dependencies)[1], Head(dependencies)[2]),
                   Tail(dependencies))

\* (mutant) the graph of the last call is kept and added to
BuildDependencyGraph_kept(dependency_graph, dependencies) ==
    GraphFrom(dependency_graph, dependencies)

\* _build_dependency_graph: graph = {} filled from the dependencies
BuildDependencyGraph(dependency_graph, dependencies) == GraphFrom(<<>>, dependencies)

\* the graph as score_class and score_function read it: iterating over
\* the value of a node yields its two keys, 'calls' and 'called_by'
GraphAsDependencies(graph) ==
    [i \in 1..Len(graph) |->
       <<graph[i].name,
         <<<<"c", "a", "l", "l", "s">>,
           <<"c", "a", "l", "l", "e", "d", "_", "b", "y">>>>>>]

\* names of the first n entries of a sorted list of <<position, score>>
TopNames(sorted, items, n) ==
    [k \in 1..Min(n, Len(sorted)) |-> items[sorted[k][1]].name]

\* _identify_central_components
CentralComponents(graph) ==
    LET sorted == SortedDesc([i \in 1..Len(graph) |->
                                <<i, Cardinality(graph[i].calls)
                                     + Cardinality(graph[i].called_by)>>])
    IN  TopNames(sorted, graph, 3)

\* _identify_entry_points
RECURSIVE EntryPoints(_, _)
EntryPoints(graph, entry_points) ==
    IF graph = <<>> THEN SubSeq(entry_points, 1, Min(3, Len(entry_points)))
    ELSE LET node == Head(graph)
         IN  EntryPoints(Tail(graph),
               IF Cardinality(node.called_by) <= 1 /\ Cardinality(node.calls) >= 3
               THEN IF Contains(LowerName(node.name), N_main)
                       \/ Contains(node.name, <<"_", "_", "i", "n", "i", "t", "_", "_">>)
                    THEN <<node.name>> \o entry_points
                    ELSE Append(entry_points, node.name)
               ELSE entry_points)

Among(seq, x) == \E i \in 1..Len(seq) : seq[i] = x

\* _suggest_focus_points, the loop over top_classes: the limit of 5 is
\* tested after an append
RECURSIVE AddClasses(_, _)
AddClasses(suggested_focus, top_classes) ==
    IF top_classes = <<>> THEN suggested_focus
    ELSE IF Among(suggested_focus, Head(top_classes))
    THEN AddClasses(suggested_focus, Tail(top_classes))
    ELSE IF Len(suggested_focus) + 1 >= 5 THEN Append(suggested_focus, Head(top_classes))
    ELSE AddClasses(Append(suggested_focus, Head(top_classes)), Tail(top_classes))

\* _suggest_focus_points, the loop over top_functions
RECURSIVE AddFunctions(_, _, _)
AddFunctions(suggested_focus, top_functions, remaining_slots) ==
    IF top_functions = <<>> \/ remaining_slots <= 0 THEN suggested_focus
    ELSE IF Among(suggested_focus, Head(top_functions))
    THEN AddFunctions(suggested_focus, Tail(top_functions), remaining_slots)
    ELSE AddFunctions(Append(suggested_focus, Head(top_functions)), Tail(top_functions),
                      remaining_slots - 1)

SuggestFocusPoints(graph, top_classes, top_functions) ==
    LET with_classes == AddClasses(EntryPoints(graph, <<>>), top_classes)
    IN  AddFunctions(with_classes, top_functions, 5 - Len(with_classes))

\* analyze_code_structure: what it returns, with the scores it ranked by
analyze_code_structure(weights, dependency_graph, code_analysis) ==
    LET graph == BuildDependencyGraph(dependency_graph, code_analysis.dependencies)
        dependencies == GraphAsDependencies(graph)
        classes == code_analysis.classes
        functions == code_analysis.functions
        class_scores == [i \in 1..Len(classes) |->
                           Scorer_score_class(weights, classes[i], <<>>, dependencies)]
        function_scores == [i \in 1..Len(functions) |->
                              Scorer_score_function(weights, functions[i], <<>>, dependencies)]
        sorted_classes == SortedDesc([i \in 1..Len(classes) |-> <<i, class_scores[i]>>])
        sorted_functions == SortedDesc([i \in 1..Len(functions) |-> <<i, function_scores[i]>>])
        top_classes == TopNames(sorted_classes, classes, 5)
        top_functions == TopNames(sorted_functions, functions, 5)
    IN  [graph |-> graph,
         class_scores |-> class_scores,
         function_scores |-> function_scores,
         top_classes |-> top_classes,
         top_functions |-> top_functions,
         central_components |-> CentralComponents(graph),
         entry_points |-> EntryPoints(graph, <<>>),
         suggested_focus |-> SuggestFocusPoints(graph, top_classes, top_functions)]

ClassOf(n) == [name |-> n, methods |-> 1, base_classes |-> FALSE, docstring |-> FALSE]

FuncOf(n) == [name |-> n, parameters |-> 0, inner_functions |-> 0, docstring |-> FALSE]

\* what the analyzer is given: two classes of equal score, functions one
\* of which calls three others; the same in another order and without
\* call edges; nothing
StructureInputs ==
    {[classes |-> <<ClassOf(N_A), ClassOf(N_B)>>,
      functions |-> <<FuncOf(N_helper), FuncOf(N_f), FuncOf(N_main), FuncOf(N_call)>>,
      dependencies |-> << <<N_main, <<N_helper, N_f, N_call>>>>, <<N_f, <<N_helper>>>> >>],
     [classes |-> <<ClassOf(N_B), ClassOf(N_A)>>,
      functions |-> <<FuncOf(N_call), FuncOf(N_helper)>>,
      dependencies |-> <<>>],
     [classes |-> <<>>, functions |-> <<>>, dependencies |-> <<>>]}

\* what the optimizer is given: classes and functions of equal score
OptimizeInputs ==
    {[directory_structure |-> <<"src/">>, imports |-> <<"os", "sys">>,
      classes |-> <<[name |-> N_A, methods |-> 1], [name |-> N_B, methods |-> 1]>>,
      functions |-> <<[name |-> N_g, parameters |-> 0], [name |-> N_f, parameters |-> 0]>>],
     [directory_structure |-> <<"src/">>, imports |-> <<"os", "sys">>,
      classes |-> <<[name |-> N_B, methods |-> 1], [name |-> N_A, methods |-> 1]>>,
      functions |-> <<[name |-> N_f, parameters |-> 1]>>]}

\* analyzer.analyze_code_structure(code_analysis)
AnalyzeCodeStructure(code_analysis) ==
    /\ an.op = "runs" /\ Len(an.runs) < MaxRuns
    /\ LET r == analyze_code_structure(an.weights, an.dependency_graph, code_analysis)
       IN  an' = [an EXCEPT !.dependency_graph = r.graph,
                            !.runs = Append(@, [call |-> "analyze_code_structure",
                                                input |-> code_analysis,
                                                weights |-> an.weights,
                                                result |-> r])]
    /\ UNCHANGED <<fs, now, db, ex, faults, ret, hist, workers, alloc>>

\* optimizer.optimize(code_analysis)
OptimizeAgain(code_analysis) ==
    /\ an.op = "runs" /\ Len(an.runs) < MaxRuns
    /\ an' = [an EXCEPT !.runs = Append(@, [call |-> "optimize",
                                            input |-> code_analysis,
                                            weights |-> an.weights,
                                            result |-> optimize(an.token_budget,
                                                                an.focus_classes,
                                                                code_analysis)])]
    /\ UNCHANGED <<fs, now, db, ex, faults, ret, hist, workers, alloc>>

\* CodeStructureImportanceAnalyzer() and LLMContextOptimizer()
InitRuns ==
    /\ StoreIdle
    /\ alloc = AllocIdle
    /\ an = [op |-> "runs", weights |-> DefaultWeights, dependency_graph |-> <<>>,
             token_budget |-> DefaultTokenBudget, focus_classes |-> <<>>, runs |-> <<>>]

NextRuns ==
    \/ \E code_analysis \in StructureInputs : AnalyzeCodeStructure(code_analysis)
    \/ \E code_analysis \in OptimizeInputs : OptimizeAgain(code_analysis)

SpecRuns == InitRuns /\ [][NextRuns]_vars

(***************************************************************************)
(* CodeDatabase.get_code_by_name in both modes, over rows stored with      *)
(* add_code_snippet under any of a few names: a name, its upper-case       *)
(* variant, and dotted names that hold one of them as first, last or       *)
(* middle part.                                                            *)
(***************************************************************************)
MaxRows == 2

N_M == <<"M">>

Dotted(a, b) == a \o <<".">> \o b

LookupNames ==
    {N_m, N_M, Dotted(N_A, N_m), Dotted(N_A, N_M), Dotted(N_m, N_f), Dotted(N_M, N_f),
     Dotted(Dotted(N_A, N_m), N_f), Dotted(Dotted(N_B, N_A), N_m)}

\* the names asked for: m, the same with a blank before it, and A
LookupQueries == {N_m, <<" ">> \o N_m, N_A}

\* (mutant) every row has rank 0
FlexRank_flat(rowname, q) == 0

\* database.py 271-276: CASE WHEN name = ? ... WHEN name LIKE 'q.%' ...
\* WHEN name LIKE '%.q' ... ELSE 3
FlexRank(rowname, q) ==
    IF rowname = q THEN 0
    ELSE IF Like(q \o <<".", "%">>, rowname) THEN 1
    ELSE IF Like(<<"%", ".">> \o q, rowname) THEN 2
    ELSE 3

\* database.py 268-269: the WHERE clause of the flexible search
FlexMatch(rowname, q) ==
    \/ rowname = q
    \/ Like(q \o <<".", "%">>, rowname)
    \/ Like(<<"%", ".">> \o q, rowname)
    \/ Like(<<"%", ".">> \o q \o <<".", "%">>, rowname)
    \/ Like(<<"%", ".">> \o q \o <<"(", "%">>, rowname)
    \/ Like(<<"%", "d", "e", "f", " ">> \o q \o <<"(", "%">>, rowname)

\* ORDER BY rank, length(name)
InOrder(r1, r2, q) ==
    \/ FlexRank(r1.name, q) < FlexRank(r2.name, q)
    \/ FlexRank(r1.name, q) = FlexRank(r2.name, q) /\ Len(r1.name) <= Len(r2.name)

\* the orders SQLite may return the rows in: any that follows ORDER BY
Orderings(rows, q) ==
    LET n == Len(rows)
        perms == {p \in [1..n -> 1..n] : \A i, j \in 1..n : i # j => p[i] # p[j]}
    IN  {[i \in 1..n |-> rows[p[i]]] :
           p \in {x \in perms :
                    \A i, j \in 1..n : i < j => InOrder(rows[x[i]], rows[x[j]], q)}}

\* get_code_by_name(file_path, name, exact_match=False): the possible results
get_code_by_name_flexible(d, file, name) ==
    {Selected(o) :
       o \in Orderings(SelectSeq(d.snip, LAMBDA r : r.file_path = file
                                                     /\ FlexMatch(r.name, CleanName(name))),
                       CleanName(name))}

\* CodeDatabase.add_code_snippet(file, name, "function", code)
AddSnippet(f, name) ==
    /\ ex.pc = "idle"
    /\ Len(db.snip) < MaxRows
    /\ db' = add_code_snippet(db, MainThread, Row(f, name, "function", "pass", 1, 1), "none")
    /\ ret' = RetNone
    /\ UNCHANGED <<fs, now, ex, faults, hist, workers, alloc, an>>

\* CodeDatabase.get_code_by_name(f, name, exact_match=False)
GetCodeByNameFlexible(f, name) ==
    /\ ex.pc = "idle"
    /\ WorkersIdle
    /\ \E rows \in get_code_by_name_flexible(db, f, name) :
         ret' = [op |-> "lookup_flexible", file |-> f, name |-> name, fault |-> "none",
                 stored |-> "", rows |-> rows]
    /\ UNCHANGED <<fs, now, db, ex, faults, hist, workers, alloc, an>>

InitLookup ==
    /\ StoreIdle
    /\ alloc = AllocIdle
    /\ an = AnIdle

NextLookup ==
    \/ \E f \in Files, name \in LookupNames : AddSnippet(f, name)
    \/ \E f \in Files, name \in LookupQueries : GetCodeByName(f, name)
    \/ \E f \in Files, name \in LookupQueries : GetCodeByNameFlexible(f, name)

SpecLookup == InitLookup /\ [][NextLookup]_vars

(***************************************************************************)
(* AstroidAnalyzer._analyze_function over the functions of one module.     *)
(* Of a function the model keeps its name, its return annotation ("" when  *)
(* it has none), the number of its parameters, the names of the functions  *)
(* defined in its body and, for every `return <expr>` statement of its     *)
(* body, what astroid's infer() gives for the expression: a list of        *)
(* types, the Uninferable object, or an InferenceError.  An exception      *)
(* raised by astroid while one part of one function is analysed is an      *)
(* input: fault names the function and the part.                           *)
(***************************************************************************)
\* the type names a return can infer to, in the order sorted() gives them
TypeNames == <<"NoneType", "int", "str">>

Unresolved == {<<"Uninferable">>, <<"InferenceError">>}

Inferences == {<<"int">>, <<"str">>, <<"NoneType", "int">>} \cup Unresolved

\* astroid_analyzer.py 422-434: the type names one return adds to types.
\* Uninferable answers every attribute and call with itself, so
\* inf.pytype().split(".") is Uninferable and [-1] raises TypeError: like
\* an InferenceError it is printed and the return adds nothing.
TypesOfReturn(inferred) ==
    IF inferred \in Unresolved THEN {}
    ELSE {inferred[k] : k \in 1..Len(inferred)}

RECURSIVE JoinTypes(_)
JoinTypes(names) ==
    IF Len(names) = 1 THEN names[1] ELSE names[1] \o " | " \o JoinTypes(Tail(names))

\* (mutant) a return that cannot be inferred adds "unknown"
InferReturnType_unknown(returns) ==
    LET types == UNION {TypesOfReturn(returns[k]) : k \in 1..Len(returns)}
        sorted == SelectSeq(TypeNames, LAMBDA t : t \in types)
                  \o (IF \E k \in 1..Len(returns) : TypesOfReturn(returns[k]) = {}
                      THEN <<"unknown">> ELSE <<>>)
    IN  IF sorted = <<>> THEN "None" ELSE JoinTypes(sorted)

\* _infer_return_type
InferReturnType(returns) ==
    LET types == UNION {TypesOfReturn(returns[k]) : k \in 1..Len(returns)}
        sorted == SelectSeq(TypeNames, LAMBDA t : t \in types)
    IN  IF sorted = <<>> THEN "None" ELSE JoinTypes(sorted)

\* astroid_analyzer.py 249-251: what _analyze_function returns when it fails
MinimalInfo(name) ==
    [name |-> name, parameters |-> 0, return_type |-> "absent", inner_functions |-> <<>>]

\* _analyze_function(node), the func_info it builds; point is the part of
\* the analysis in which astroid raises, "none" when it does not
FuncInfo(node, point) ==
    [name |-> node.name,
     parameters |-> IF point = "parameters" THEN 0 ELSE node.parameters,
     return_type |-> IF point = "return_type" THEN "unknown"
                     ELSE IF node.returns # "" THEN node.returns
                     ELSE InferReturnType(node.return_values),
     inner_functions |-> [k \in 1..Len(node.inner) |->
                            IF point = "inner_functions" THEN MinimalInfo(node.inner[k])
                            ELSE [name |-> node.inner[k], parameters |-> 0,
                                  return_type |-> "None", inner_functions |-> <<>>]]]

FaultPoints == {"parameters", "return_type", "inner_functions", "function"}

\* the functions a module is made of
FuncNodes ==
    [name : {"f"}, returns : {"", "int"}, parameters : {1},
     inner : {<<>>, <<"g">>},
     return_values : {<<>>} \cup {<<a>> : a \in Inferences}
                     \cup {<<a, b>> : a \in Inferences, b \in Inferences}]

SiblingNodes ==
    {[name |-> "h", returns |-> "", parameters |-> 1, inner |-> <<"g">>,
      return_values |-> <<<<"str">>, <<"int">>>>]}

\* analyze_code up to the loop over tree.body
AnalyzeCodeStart ==
    /\ an.op = "analyze_code" /\ an.pc = "call"
    /\ an' = [an EXCEPT !.pc = "loop"]
    /\ UNCHANGED <<fs, now, db, ex, faults, ret, hist, workers, alloc>>

\* astroid_analyzer.py 81-85 with 168-251: one function of tree.body.  A
\* failure of a part is printed and the function is added without it; a
\* failure outside the parts is printed and the function is not added.
AnalyzeFunctionStep ==
    /\ an.op = "analyze_code" /\ an.pc = "loop" /\ an.i <= Len(an.body)
    /\ LET node == an.body[an.i]
           point == IF an.fault.at = an.i THEN an.fault.point ELSE "none"
       IN  an' = IF point = "function"
                 THEN [an EXCEPT !.i = @ + 1, !.log = Append(@, <<node.name, point>>)]
                 ELSE [an EXCEPT !.i = @ + 1,
                                 !.functions = Append(@, FuncInfo(node, point)),
                                 !.log = IF point = "none" THEN @
                                         ELSE Append(@, <<node.name, point>>)]
    /\ UNCHANGED <<fs, now, db, ex, faults, ret, hist, workers, alloc>>

\* astroid_analyzer.py 87-93: the report is generated
AnalyzeCodeReturn ==
    /\ an.op = "analyze_code" /\ an.pc = "loop" /\ an.i > Len(an.body)
    /\ an' = [an EXCEPT !.pc = "returned"]
    /\ UNCHANGED <<fs, now, db, ex, faults, ret, hist, workers, alloc>>

\* AstroidAnalyzer.analyze_code(code) on a module of two functions, in
\* either order, with at most one failure
InitEnrich ==
    /\ StoreIdle
    /\ alloc = AllocIdle
    /\ \E n \in FuncNodes, h \in SiblingNodes :
       \E body \in {<<n, h>>, <<h, n>>} :
          \E fault \in [at : {0}, point : {"none"}] \cup [at : {1, 2}, point : FaultPoints] :
             an = [op |-> "analyze_code", pc |-> "call", body |-> body, fault |-> fault,
                   i |-> 1, functions |-> <<>>, log |-> <<>>]

NextEnrich == AnalyzeCodeStart \/ AnalyzeFunctionStep \/ AnalyzeCodeReturn

SpecEnrich == InitEnrich /\ [][NextEnrich]_vars

(***************************************************************************)
(* TokenCounter and TokenBudgetOptimizer (llm/tokenizer.py).  A text is    *)
(* the sequence of its characters, "J" standing for any character of the   *)
(* Japanese ranges.  Token counts are kept in twelfths of a token: a       *)
(* character is 1/4 of a token, or 1/1.5 in a text with a Japanese         *)
(* character.                                                              *)
(***************************************************************************)
MaxLines == 3
MaxTokens == 3
LongBudget == 60
\* tokenizer.py 123: the least content worth adding to a cut section
MinWorthTokens == 50
\* tokenizer.py 11
avg_chars_per_token == 4

\* the unit of token counts: 1/4 and 1/1.5 of a token are 3 and 8 twelfths
TwelfthsPerToken == 3 * avg_chars_per_token

Repeat(c, n) == [k \in 1..n |-> c]

\* "...\n(トークン制限により切り詰められました)"
CutMarker == <<".", ".", ".", "\n", "(">> \o Repeat("J", 18) \o <<")">>

\* "\n...\n(トークン制限により切り詰められました)"
LinesMarker == <<"\n">> \o CutMarker

HasJapanese(text) == \E i \in 1..Len(text) : text[i] = "J"

\* TokenCounter.count_tokens, in twelfths
count_tokens(text) ==
    IF text = <<>> THEN 0
    ELSE IF HasJapanese(text) THEN 8 * Len(text)
    ELSE (TwelfthsPerToken \div avg_chars_per_token) * Len(text)

\* the position of the first "\n" at or after i, Len(text) + 1 if none
LineEnd(text, i) ==
    LET newlines == {j \in i..Len(text) : text[j] = "\n"}
    IN  IF newlines = {} THEN Len(text) + 1
        ELSE CHOOSE j \in newlines : \A k \in newlines : j <= k

\* text.split('\n')
RECURSIVE SplitLines(_, _)
SplitLines(text, i) ==
    LET e == LineEnd(text, i)
    IN  IF e > Len(text) THEN <<SubSeq(text, i, Len(text))>>
        ELSE <<SubSeq(text, i, e - 1)>> \o SplitLines(text, e + 1)

\* '\n'.join(lines)
RECURSIVE JoinNewline(_)
JoinNewline(lines) ==
    IF Len(lines) = 1 THEN lines[1]
    ELSE lines[1] \o <<"\n">> \o JoinNewline(Tail(lines))

\* int(x) of a number given in twelfths times avg_chars_per_token
IntOf(twelfths) ==
    IF twelfths >= 0 THEN twelfths \div TwelfthsPerToken
    ELSE -((-twelfths) \div TwelfthsPerToken)

\* line[:n]
SliceTo(line, n) ==
    IF n >= 0 THEN SubSeq(line, 1, Min(n, Len(line)))
    ELSE SubSeq(line, 1, Len(line) + n)

\* tokenizer.py 140-150: the lines kept, a line with its "\n" at a time
RECURSIVE KeptLines(_, _, _, _)
KeptLines(lines, i, tokens, max_tokens) ==
    IF i > Len(lines) THEN i - 1
    ELSE LET line_tokens == count_tokens(lines[i] \o <<"\n">>)
         IN  IF tokens + line_tokens <= max_tokens
             THEN KeptLines(lines, i + 1, tokens + line_tokens, max_tokens)
             ELSE i - 1

\* TokenBudgetOptimizer._truncate_content(content, max_tokens)
truncate_content(content, max_tokens) ==
    IF count_tokens(content) <= max_tokens THEN content
    ELSE LET lines == SplitLines(content, 1)
             kept == KeptLines(lines, 1, 0, max_tokens)
         IN  IF kept = 0
             THEN SliceTo(lines[1], IntOf(max_tokens * avg_chars_per_token)) \o CutMarker
             ELSE JoinNewline(SubSeq(lines, 1, kept)) \o LinesMarker

\* the line from i to e - 1 matches ^#+ .+$
IsHeading(text, i, e) ==
    \E h \in 1..(e - i) :
        /\ \A k \in i..(i + h - 1) : text[k] = "#"
        /\ i + h <= e - 1
        /\ text[i + h] = " "
        /\ i + h + 1 <= e - 1

\* re.split(r'(^#+ .+$)', text, flags=re.MULTILINE)
RECURSIVE SplitSections(_, _, _)
SplitSections(text, i, start) ==
    IF i > Len(text) THEN <<SubSeq(text, start, Len(text))>>
    ELSE LET e == LineEnd(text, i)
         IN  IF IsHeading(text, i, e)
             THEN <<SubSeq(text, start, i - 1), SubSeq(text, i, e - 1)>>
                  \o SplitSections(text, e + 1, e)
             ELSE SplitSections(text, e + 1, start)

\* tokenizer.py 65-76
RECURSIVE PairSections(_, _)
PairSections(sections, i) ==
    IF i > Len(sections) THEN <<>>
    ELSE IF i + 1 <= Len(sections) /\ StartsWith(sections[i], <<"#">>)
         THEN <<[heading |-> sections[i], content |-> sections[i + 1]]>>
              \o PairSections(sections, i + 2)
    ELSE <<[heading |-> <<>>, content |-> sections[i]]>> \o PairSections(sections, i + 1)

\* tokenizer.py 83-89: a pattern is found in the heading
IsPriority(priority_sections, heading) ==
    \E k \in 1..Len(priority_sections) : Contains(heading, priority_sections[k])

\* tokenizer.py 99-111: the priority sections
RECURSIVE AddPriority(_, _, _, _)
AddPriority(content, i, acc, max_tokens) ==
    IF i > Len(content) THEN acc
    ELSE LET heading == content[i].heading
             section == heading \o content[i].content
             section_tokens == count_tokens(section)
             reduced_content == truncate_content(content[i].content,
                                    max_tokens - acc.tokens_used - count_tokens(heading))
         IN  IF acc.tokens_used + section_tokens <= max_tokens
             THEN AddPriority(content, i + 1,
                              [result |-> acc.result \o section,
                               tokens_used |-> acc.tokens_used + section_tokens], max_tokens)
             ELSE [result |-> acc.result \o heading \o reduced_content,
                   tokens_used |-> acc.tokens_used + count_tokens(heading \o reduced_content)]

\* tokenizer.py 114-127: the other sections
RECURSIVE AddNormal(_, _, _, _)
AddNormal(content, i, acc, max_tokens) ==
    IF i > Len(content) THEN acc
    ELSE LET heading == content[i].heading
             section == heading \o content[i].content
             section_tokens == count_tokens(section)
             available_tokens == max_tokens - acc.tokens_used
         IN  IF acc.tokens_used + section_tokens <= max_tokens
             THEN AddNormal(content, i + 1,
                            [result |-> acc.result \o section,
                             tokens_used |-> acc.tokens_used + section_tokens], max_tokens)
             ELSE IF available_tokens > count_tokens(heading) + MinWorthTokens * TwelfthsPerToken
             THEN [acc EXCEPT !.result = @ \o heading
                        \o truncate_content(content[i].content,
                                            available_tokens - count_tokens(heading))]
             ELSE acc

\* TokenBudgetOptimizer(max_tokens).optimize_text(text, priority_sections),
\* max_tokens in twelfths
optimize_text(max_tokens, text, priority_sections) ==
    IF count_tokens(text) <= max_tokens THEN text
    ELSE LET paired_sections == PairSections(SplitSections(text, 1, 1), 1)
             priority_content ==
                 SelectSeq(paired_sections, LAMBDA p : IsPriority(priority_sections, p.heading))
             normal_content ==
                 SelectSeq(paired_sections, LAMBDA p : ~IsPriority(priority_sections, p.heading))
             first == AddPriority(priority_content, 1,
                                  [result |-> <<>>, tokens_used |-> 0], max_tokens)
         IN  IF first.tokens_used < max_tokens
             THEN AddNormal(normal_content, 1, first, max_tokens).result
             ELSE first.result

\* the lines texts are made of
TextLines ==
    {<<>>, Repeat("a", 4), Repeat("a", 7), <<"J">>, Repeat("J", 5),
     <<"#", " ", "a">>, <<"#", " ", "b">>}

LongLines == {Repeat("a", avg_chars_per_token * LongBudget), <<"#", " ", "b">>}

LineLists(lines, n) == UNION {[1..k -> lines] : k \in 1..n}

Texts ==
    {JoinNewline(l) : l \in LineLists(TextLines, MaxLines)}
    \cup {JoinNewline(l) : l \in LineLists(LongLines, 2)}

Patterns == {<<>>, <<<<"a">>>>, <<<<"b">>>>}

TokenBudgets == (0..MaxTokens) \cup {LongBudget}

\* _truncate_content(content, max_tokens) is called
TruncateContent ==
    /\ an.op = "truncate" /\ an.pc = "call"
    /\ an' = [an EXCEPT !.pc = "returned",
                        !.result = truncate_content(an.content, an.max_tokens * TwelfthsPerToken)]
    /\ UNCHANGED <<fs, now, db, ex, faults, ret, hist, workers, alloc>>

\* optimize_text(text, priority_sections) is called
OptimizeText ==
    /\ an.op = "optimize_text" /\ an.pc = "call"
    /\ an' = [an EXCEPT !.pc = "returned",
                        !.result = optimize_text(an.max_tokens * TwelfthsPerToken,
                                                 an.content, an.priority_sections)]
    /\ UNCHANGED <<fs, now, db, ex, faults, ret, hist, workers, alloc>>

InitTokens ==
    /\ StoreIdle
    /\ alloc = AllocIdle
    /\ \E text \in Texts, b \in TokenBudgets, p \in Patterns :
          \/ an = [op |-> "optimize_text", pc |-> "call", max_tokens |-> b, content |-> text,
                   priority_sections |-> p, result |-> <<>>]
          \/ /\ p = <<>>
             /\ an = [op |-> "truncate", pc |-> "call", max_tokens |-> b, content |-> text,
                      priority_sections |-> p, result |-> <<>>]

NextTokens == TruncateContent \/ OptimizeText

SpecTokens == InitTokens /\ [][NextTokens]_vars

(***************************************************************************)
(* SnippetView.load_snippets_from_file and MainWindow.analyze_file.  A     *)
(* file may exist and not be readable as UTF-8 text; its modification      *)
(* time may be later than the clock (a file copied from another machine).  *)
(***************************************************************************)
MaxDepth == 3

Unreadable == "unreadable"

\* extract_from_file(f) from the first storage call to its return, when no
\* storage call fails
RECURSIVE RunExtract(_, _, _)
RunExtract(e, d, clock) ==
    IF e.pc = "done" THEN d
    ELSE LET r == FrameStep(e, d, MainThread, "none", clock)
         IN  RunExtract(r.e, r.d, clock)

\* MainWindow.analyze_file(file_path): the database it leaves.  When the
\* file cannot be opened (main_window.py 1542) the error is shown and
\* nothing is extracted; otherwise extract_from_file runs, and then
\* perform_extended_analysis.
analyze_file(d, fsys, file, clock) ==
    IF ~fsys[file].exists \/ fsys[file].content = Unreadable THEN d
    ELSE LET extracted == RunExtract(StartFrame(file, fsys, d, NoHist), d, clock)
         IN  IF ContentOf(fsys[file].content).ok
             THEN update_file_timestamp(extracted, MainThread, file, clock, "none")
             ELSE extracted

\* load_snippets_from_file(file_path) is called by the user interface
LoadStart(f) ==
    /\ an.pc = "idle"
    /\ an' = [op |-> "load", pc |-> "check", file |-> f, depth |-> 0, edits |-> 0,
              shown |-> <<>>]
    /\ UNCHANGED <<fs, now, db, ex, faults, ret, hist, workers, alloc>>

\* snippet_view.py 213-287: the rows are shown when the file is not stale
LoadShow ==
    /\ an.op = "load" /\ an.pc = "check"
    /\ ~needs_update(db, fs, an.file, "none")
    /\ an' = [an EXCEPT !.pc = "returned", !.shown = RowsOfFile(db.snip, an.file)]
    /\ UNCHANGED <<fs, now, db, ex, faults, ret, hist, workers, alloc>>

\* snippet_view.py 288-294: the file is stale: analyze_file, then the
\* method calls itself
LoadReanalyze ==
    /\ an.op = "load" /\ an.pc = "check"
    /\ needs_update(db, fs, an.file, "none")
    /\ an.depth < MaxDepth
    /\ db' = analyze_file(db, fs, an.file, now)
    /\ an' = [an EXCEPT !.depth = @ + 1]
    /\ UNCHANGED <<fs, now, ex, faults, ret, hist, workers, alloc>>

\* the file is saved by an editor while it is loaded
EditDuringLoad ==
    /\ an.op = "load" /\ an.pc = "check" /\ an.edits = 0
    /\ fs[an.file].exists
    /\ now < MaxTime
    /\ now' = now + 1
    /\ \E c \in ContentIds :
          fs' = [fs EXCEPT ![an.file] = [exists |-> TRUE, content |-> c, mtime |-> now + 1]]
    /\ an' = [an EXCEPT !.edits = @ + 1]
    /\ UNCHANGED <<db, ex, faults, ret, hist, workers, alloc>>

\* the files when a view is opened: any content, read before or not
InitLoad ==
    /\ fs \in [Files -> [exists : {TRUE}, content : ContentIds \cup {Unreadable},
                         mtime : 0..MaxTime]]
    /\ now = 0
    /\ db = InitDb
    /\ ex = IdleFrame
    /\ faults = 0
    /\ ret = RetNone
    /\ hist = NoHist
    /\ workers = PoolIdle
    /\ alloc = AllocIdle
    /\ an = AnIdle

NextLoad ==
    \/ \E f \in Files : LoadStart(f)
    \/ LoadShow
    \/ LoadReanalyze
    \/ EditDuringLoad

SpecLoad == InitLoad /\ [][NextLoad]_vars

(***************************************************************************)
(* Claims about the snippet store.                                         *)
(***************************************************************************)
\* the text of lines a..b of a file, each line followed by a line break
\* except the last
RECURSIVE SourceText(_, _, _)
SourceText(lines, a, b) ==
    IF a > b THEN ""
    ELSE IF a = b THEN lines[b]
    ELSE SourceText(lines, a, b - 1) \o "\n" \o lines[b]

\* C1: storing a file's snippets is atomic: while and after extract_from_file
\* runs, the committed rows and timestamp of the file are either those it
\* had when the call started or the complete new rows with the new timestamp.
C1_AtomicUpsert ==
    ex.pc # "idle" =>
        LET rows == RowsOfFile(db.dsnip, ex.file)
            ts == db.dfiles[ex.file]
        IN  \/ rows = ex.oldRows /\ ts = ex.oldTs
            \/ rows = ToStore(ex) /\ ts = ex.newTs /\ ex.newTs # NoTime

\* C2: code_snippets never holds two rows with the same (file_path, name).
C2_OneRowPerName ==
    \A i, j \in 1..Len(db.snip) :
        i < j => ~(/\ db.snip[i].file_path = db.snip[j].file_path
                   /\ db.snip[i].name = db.snip[j].name)

\* C3: while the pool threads of extract_multi_files run, the rows of a
\* file a thread is processing, as committed and as the connection shows
\* them, are the complete rows the file had when the thread took it or its
\* complete new rows, and uncommitted changes never span two files.
C3_FileScoped ==
    /\ \A w \in Threads :
          LET e == workers.frame[w]
          IN  e.pc # "idle" =>
                /\ RowsOfFile(db.dsnip, e.file) \in {e.oldRows, ToStore(e)}
                /\ RowsOfFile(db.snip, e.file) \in {e.oldRows, ToStore(e)}
    /\ Cardinality({f \in Files : RowsOfFile(db.snip, f) # RowsOfFile(db.dsnip, f)}) <= 1

\* two threads in the middle of storing two files that already have rows
C3_Witness ==
    /\ workers.frame["w1"].pc = "store" /\ workers.frame["w2"].pc = "store"
    /\ workers.frame["w1"].file # workers.frame["w2"].file
    /\ workers.frame["w1"].oldRows # <<>> /\ workers.frame["w2"].oldRows # <<>>
    /\ workers.frame["w1"].i > 1

\* C4 as claimed: needs_update is true exactly when the file has no row in
\* code_files or its modification time is later than the recorded time.
C4_NeedsUpdateIff ==
    ret.op = "needs_update" =>
        ret.val = (ret.row = NoRow \/ ret.mtime > ret.row)

\* C4 as amended: needs_update is false for a file that is not on disk; for a
\* file on disk it is true exactly when the file has no row in code_files,
\* its modification time is strictly later than the recorded time, or the
\* query for the recorded time fails.
C4_NeedsUpdateExisting ==
    ret.op = "needs_update" =>
        ret.val = (/\ ret.exists
                   /\ \/ ret.fault # "none"
                      \/ ret.row = NoRow
                      \/ ret.mtime > ret.row)

\* a file on disk parsed at the very time it was last modified is up to date
C4_Witness ==
    /\ ret.op = "needs_update"
    /\ ret.exists /\ ret.fault = "none"
    /\ ret.row # NoRow /\ ret.mtime = ret.row
    /\ ~ret.val

\* the snippets extract_from_file takes from a content, and the names of
\* its classes, functions and methods
Extracted(file, c) == IF ContentOf(c).ok THEN ExtractSnippets(file, ContentOf(c)) ELSE <<>>

DefNames(file, c) ==
    {Extracted(file, c)[k].name :
        k \in {n \in 1..Len(Extracted(file, c)) : Extracted(file, c)[n].type # "import"}}

\* a lookup that succeeded, by a name defined in the file, right after the
\* file was stored without a storage failure
C8_Case ==
    /\ ret.op = "lookup" /\ ret.fault = "none"
    /\ ret.stored # ""
    /\ ret.name \in DefNames(ret.file, ret.stored)

\* the row is a stored snippet of the file: its code is the source lines
\* line_start..line_end (as stored) of the file
Verbatim(row, file, c) ==
    \E k \in 1..Len(Extracted(file, c)) :
        LET e == Extracted(file, c)[k]
        IN  /\ e.name = row.name
            /\ row.code = SourceText(ContentOf(c).lines, e.line_start, e.line_end)

Namesakes(file, c, q) ==
    {k \in 1..Len(Extracted(file, c)) :
        LET n == Extracted(file, c)[k].name
        IN  \/ n = q
            \/ /\ Len(n) > Len(q)
               /\ SubSeq(n, Len(n) - Len(q), Len(n)) = <<".">> \o q}

C9_Idempotent ==
    (ret.op = "extract" /\ ret.again /\ ~ret.faulted) => ret.after = ret.before

\* the second of two extractions in a row of a file with snippets
C9_Witness ==
    /\ ret.op = "extract" /\ ret.again /\ ~ret.faulted
    /\ ret.val > 1 /\ ret.content = "redef"

\* C10: a storage call that fails makes extract_from_file report failure
\* (return 0), and a count it returns is the number of rows stored for the
\* file.
C10_FailureSurfaced ==
    ret.op = "extract" =>
        /\ ret.faulted => ret.val = 0
        /\ ret.val > 0 => ret.val = ret.stored

(***************************************************************************)
(* Claims about the budget allocator.  Quotas are in units of              *)
(* 1/Denominator tokens.                                                   *)
(***************************************************************************)
Whole == alloc.budget * Denominator(alloc.ratios)

\* C5: for a total budget B >= 0 the quotas allocate_budget returns are
\* each >= 0 and sum to at most B.
C5_WithinBudget ==
    (alloc.pc = "done" /\ alloc.budget >= 0) =>
        /\ \A k \in Sections : alloc.quota[k] >= 0
        /\ SumOver(alloc.quota, Sections) <= Whole

\* C6: every quota is at least 5% of the total budget, after the small
\* sections are raised and after the excess is subtracted.
C6_Floor ==
    alloc.pc \in {"floored", "done"} =>
        \A k \in Sections : 20 * alloc.quota[k] >= Whole

\* the excess was subtracted: one section gave up its share of it and
\* stayed above the floor, another was held at the floor
C6_Witness ==
    /\ alloc.pc = "done" /\ alloc.budget > 0
    /\ SumOver(Proportional(alloc.budget, alloc.ratios), Sections) > Whole
    /\ \E k \in Sections :
          /\ alloc.quota[k] < Proportional(alloc.budget, alloc.ratios)[k]
          /\ 20 * alloc.quota[k] > Whole
    /\ \E k \in Sections : 20 * alloc.quota[k] = Whole

(***************************************************************************)
(* Claims about the selection in optimize.                                 *)
(***************************************************************************)
Optimized == alloc.pc = "optimized"

ScoreOfClass(i) == score_class(alloc.code_analysis.classes[i], alloc.focus_classes)

ScoreOfFunc(i) == score_function(alloc.code_analysis.functions[i])

\* position i of the analysis comes before position j in the ranking
Before(si, i, sj, j) == si > sj \/ (si = sj /\ i < j)

\* the result lists its items in ranking order, each once
C7_ClassesRanked ==
    LET r == alloc.result.classes
    IN  \A a, b \in 1..Len(r) :
            a < b => Before(ScoreOfClass(r[a]), r[a], ScoreOfClass(r[b]), r[b])

C7_FunctionsRanked ==
    LET r == alloc.result.functions
    IN  \A a, b \in 1..Len(r) :
            a < b => Before(ScoreOfFunc(r[a]), r[a], ScoreOfFunc(r[b]), r[b])

InResult(r, i) == \E a \in 1..Len(r) : r[a] = i

RECURSIVE SizeOf(_, _)
SizeOf(S, size) ==
    IF S = {} THEN 0
    ELSE LET x == CHOOSE y \in S : TRUE IN size[x] + SizeOf(S \ {x}, size)

\* For the items that match no focus fragment: one that is in the result
\* is within the quota together with those chosen before it, and one that
\* is left out would have taken the items chosen before it over the quota.
C7_ClassesWithinQuota ==
    LET cs == alloc.code_analysis.classes
        r == alloc.result.classes
        plain == {i \in 1..Len(cs) : ~AnyFocus(cs[i].name, alloc.focus_classes)}
        size == [i \in 1..Len(cs) |-> ClassChars(cs[i])]
        quota == 4 * alloc.result.quota["classes"]
    IN  \A i \in plain :
            LET earlier == {j \in 1..Len(cs) :
                               /\ InResult(r, j)
                               /\ Before(ScoreOfClass(j), j, ScoreOfClass(i), i)}
            IN  IF InResult(r, i)
                THEN (SizeOf(earlier \cap plain, size) + size[i]) * alloc.result.unit <= quota
                ELSE (SizeOf(earlier, size) + size[i]) * alloc.result.unit > quota

C7_FunctionsWithinQuota ==
    LET funcs == alloc.code_analysis.functions
        r == alloc.result.functions
        plain == {i \in 1..Len(funcs) : ~AnyFocus(funcs[i].name, alloc.focus_classes)}
        size == [i \in 1..Len(funcs) |-> FuncChars(funcs[i])]
        quota == 4 * alloc.result.quota["functions"]
    IN  \A i \in plain :
            LET earlier == {j \in 1..Len(funcs) :
                               /\ InResult(r, j)
                               /\ Before(ScoreOfFunc(j), j, ScoreOfFunc(i), i)}
            IN  IF InResult(r, i)
                THEN (SizeOf(earlier \cap plain, size) + size[i]) * alloc.result.unit <= quota
                ELSE (SizeOf(earlier, size) + size[i]) * alloc.result.unit > quota

\* a class whose name contains a focus fragment is in the result
C7_FocusClasses ==
    \A i \in 1..Len(alloc.code_analysis.classes) :
        AnyFocus(alloc.code_analysis.classes[i].name, alloc.focus_classes)
            => InResult(alloc.result.classes, i)

\* a function whose name contains a focus fragment is in the result
C7_FocusFunctions ==
    \A i \in 1..Len(alloc.code_analysis.functions) :
        AnyFocus(alloc.code_analysis.functions[i].name, alloc.focus_classes)
            => InResult(alloc.result.functions, i)

\* C7: in optimize, classes and functions are considered in descending
\* score order; an item that would take the running total over the quota
\* is left out whole while later smaller items may still be added, except
\* that an item whose name matches a focus fragment is always included.
C7_Selection ==
    Optimized =>
        /\ C7_ClassesRanked /\ C7_FunctionsRanked
        /\ C7_ClassesWithinQuota /\ C7_FunctionsWithinQuota
        /\ C7_FocusClasses /\ C7_FocusFunctions

\* the same, the focus exception for functions left aside
C7_SelectionButFocusFunctions ==
    Optimized =>
        /\ C7_ClassesRanked /\ C7_FunctionsRanked
        /\ C7_ClassesWithinQuota /\ C7_FunctionsWithinQuota
        /\ C7_FocusClasses

(***************************************************************************)
(* Claims about the analysis of a batch.                                   *)
(***************************************************************************)
\* what the call has put into its result for file f
PartsOf(f) == {k \in 1..Len(an.parts) : an.parts[k].file = f}

\* the batch was analysed to the end, and a file of it does not parse
C11_Case ==
    /\ an.pc \in {"returned", "raised"}
    /\ \E k \in 1..Len(an.paths) :
          fs[an.paths[k]].exists /\ ~ContentOf(fs[an.paths[k]].content).ok

\* the symbol table the call gives for a content that parses
TableAlone(c) ==
    IF an.op = "analyze_files" THEN CodeAnalyzer_analyze_code(c).table
    ELSE AstroidAnalyzer_analyze_code(c)

\* C11: in a batch with a file that does not parse the call completes,
\* every file that parses has its complete symbol table in the result, and
\* the file that does not parse has one recorded error and no symbols.
C11_ParseErrorIsolated ==
    C11_Case =>
        /\ an.pc = "returned"
        /\ \A k \in 1..Len(an.paths) :
              LET f == an.paths[k]
                  c == ContentOf(fs[f].content)
              IN  fs[f].exists =>
                    /\ Cardinality(PartsOf(f)) = 1
                    /\ \A p \in PartsOf(f) :
                          IF c.ok
                          THEN an.parts[p].error = "none" /\ an.parts[p].table = TableAlone(c)
                          ELSE an.parts[p].error = "syntax" /\ an.parts[p].table = NoTable

\* the same for analyze_files alone
C11_AnalyzeFilesIsolated == an.op = "analyze_files" => C11_ParseErrorIsolated

(***************************************************************************)
(* Claims about the scores of CodeElementScorer (in tenths).               *)
(***************************************************************************)
\* score_function has returned for a function main without parameters,
\* inner functions or docstring, called by nobody, with focus ["main"]
C12_Case ==
    /\ an.op = "score_function" /\ an.pc = "returned"
    /\ an.weights = DefaultWeights
    /\ an.info = [name |-> N_main, parameters |-> 0, inner_functions |-> 0,
                  docstring |-> FALSE]
    /\ an.focus = <<N_main>>
    /\ an.dependencies = <<>>

\* C12 as claimed: the score of that function is exactly 10.0
C12_ScoreTen == C12_Case => an.score = 100

\* C12 as amended: the score of that function is 13.0, the is_focus bonus
\* and twice name_importance; a focused function with no other signal whose
\* name contains no important name scores exactly is_focus, and every
\* signal adds its weight only when it is present.
C12_ScoreFocusAndName ==
    (an.op = "score_function" /\ an.pc = "returned") =>
        /\ C12_Case => an.score = 130
        /\ an.score =
              (IF AnyFocus(an.info.name, an.focus) THEN 100 ELSE 0)
              + (IF an.info.name = N_main THEN 30 ELSE 0)
              + an.info.parameters * 10
              + an.info.inner_functions * 12
              + (IF an.info.docstring THEN 10 ELSE 0)
              + 30 * Cardinality({p \in {<<i, j>> : i \in 1..Len(an.dependencies), j \in 1..2} :
                                     /\ p[2] <= Len(an.dependencies[p[1]][2])
                                     /\ Contains(an.dependencies[p[1]][2][p[2]], an.info.name)})

C12_Witness == C12_Case /\ an.score = 130

(***************************************************************************)
(* Claims about the call edges.                                            *)
(***************************************************************************)
\* generate_call_graph has returned its graph
GraphReturned == an.op = "call_graph" /\ an.pc = "returned" /\ an.paths # <<>>

BodyOf(m) == CallContentOf(an.parsed[m]).body

\* the call expressions of one body, each with its caller
SitesOf(caller, calls) == {[caller |-> caller, call |-> calls[k]] : k \in Indices(calls)}

\* the call expressions of the parsed modules
CallSites ==
    UNION {UNION {IF BodyOf(m)[i].kind = "def"
                  THEN SitesOf(<<m, BodyOf(m)[i].name>>, BodyOf(m)[i].calls)
                  ELSE UNION {SitesOf(<<m, BodyOf(m)[i].name, BodyOf(m)[i].methods[j].name>>,
                                      BodyOf(m)[i].methods[j].calls) :
                                j \in Indices(BodyOf(m)[i].methods)} :
                  i \in Indices(BodyOf(m))} :
           m \in DOMAIN an.parsed}

\* the batch modules that define the function at top level, in file order
Definers(n) ==
    {k \in Indices(an.modules) :
       \E i \in Indices(BodyOf(an.modules[k])) :
          BodyOf(an.modules[k])[i].kind = "def" /\ BodyOf(an.modules[k])[i].name = n}

BareSites == {s \in CallSites : s.call.shape = "name" /\ Definers(s.call.name) # {}}

\* C13: every bare-name call inside a top-level function or method body
\* to a function defined at top level of a batch module produces an edge
\* from the caller to that function (main calling helper gives the edge
\* main -> helper).
C13_BareNameEdges ==
    GraphReturned =>
        \A s \in BareSites :
           \E k \in Definers(s.call.name) :
              <<an.modules[k], s.call.name>> \in an.call_graph[s.caller]

\* the files of the batch that were analysed, in batch order
Analysed == {k \in Indices(an.paths) :
               fs[an.paths[k]].exists /\ CallContentOf(fs[an.paths[k]].content).ok}

\* C13 for the edges perform_extended_analysis collects: after the batch
\* every function of an analysed file that calls by bare name a function
\* defined at top level of an analysed file has that name among its
\* callees.
C13_DependencyEdges ==
    (an.op = "dependencies" /\ an.pc = "returned") =>
        \A k \in Analysed :
           LET body == CallContentOf(fs[an.paths[k]].content).body
           IN  \A i \in Indices(body) :
                  \A c \in Indices(body[i].calls) :
                     (/\ body[i].calls[c].shape = "name"
                      /\ \E j \in Analysed :
                            <<body[i].calls[c].name>>
                               \in FunctionKeys(CallContentOf(fs[an.paths[j]].content).body))
                     => /\ <<body[i].name>> \in DOMAIN an.all_dependencies
                        /\ <<body[i].calls[c].name>> \in an.all_dependencies[<<body[i].name>>]

\* C13 for one file: the edge main -> helper is collected from a batch
\* made of the file of the scenario
C13_ScenarioDependency ==
    (/\ an.op = "dependencies" /\ an.pc = "returned"
     /\ Len(an.paths) = 1 /\ fs[an.paths[1]].content = "helper_main") =>
        an.all_dependencies = (<<"main">> :> {<<"helper">>})

\* C19: a bare-name call is resolved to at most one callee, the first
\* module in file order that defines the name at top level.
C19_FirstMatchOnly ==
    GraphReturned =>
        \A s \in BareSites :
           {d \in an.call_graph[s.caller] : Len(d) = 2 /\ d[2] = s.call.name}
             = {<<an.modules[k], s.call.name>> :
                  k \in {j \in Definers(s.call.name) :
                           \A i \in Definers(s.call.name) : j <= i}}

\* the methods the class of the caller defines among those it calls on self
SelfCallees(caller) ==
    {<<caller[1], caller[2], s.call.name>> :
       s \in {t \in CallSites :
                /\ t.caller = caller
                /\ t.call.shape = "attribute" /\ t.call.obj = "self"
                /\ <<caller[2], t.call.name>> \in FunctionKeys(BodyOf(caller[1]))}}

C14_InvalidRejected ==
    (alloc.budget < 0 \/ Raises(alloc.ratios)) => alloc.pc \notin {"floored", "done"}

\* every proportional share is at least 5% of the total budget
SharesAboveFloor ==
    \A k \in DOMAIN alloc.ratios :
       20 * alloc.budget * alloc.ratios[k]
          >= alloc.budget * SumOver(alloc.ratios, DOMAIN alloc.ratios)

EndsWith(s, p) == Len(s) >= Len(p) /\ SubSeq(s, Len(s) - Len(p) + 1, Len(s)) = p

\* the rank the claim gives a name: equal, dotted prefix, dotted suffix, other
LiteralRank(rowname, q) ==
    IF rowname = q THEN 0
    ELSE IF StartsWith(rowname, q \o <<".">>) THEN 1
    ELSE IF EndsWith(rowname, <<".">> \o q) THEN 2
    ELSE 3

\* the same with letters compared without regard to case, except for equality
FoldedRank(rowname, q) ==
    IF rowname = q THEN 0
    ELSE IF StartsWith(LowerName(rowname), LowerName(q) \o <<".">>) THEN 1
    ELSE IF EndsWith(LowerName(rowname), <<".">> \o LowerName(q)) THEN 2
    ELSE 3

FlexibleLookup == ret.op = "lookup_flexible"

C16_ExactRows ==
    (ret.op = "lookup" /\ ret.fault = "none") =>
        ret.rows =
          Selected(SelectSeq(db.snip,
                     LAMBDA r : /\ r.file_path = ret.file
                                /\ \/ r.name = CleanName(ret.name)
                                   \/ EndsWith(r.name, <<".">> \o CleanName(ret.name))))

Enriched == an.op = "analyze_code" /\ an.pc = "returned"

\* the function info recorded for the k-th function of the module, if any
InfoOf(k) ==
    {an.functions[j] : j \in {x \in 1..Len(an.functions) : an.functions[x].name = an.body[k].name}}

\* the set of type names the claim gives the returns of a function
ClaimedTypes(return_values) ==
    UNION {IF return_values[k] \in Unresolved THEN {"unknown"}
           ELSE {return_values[k][j] : j \in 1..Len(return_values[k])} :
           k \in 1..Len(return_values)}

\* C21: without a return annotation the return type is "None" when there
\* is no return with a value, the one type when all returns infer to one
\* type, the sorted types joined by " | " otherwise, a return that cannot
\* be resolved counting as "unknown"; an annotation is used as it is.
C21_ReturnType ==
    (Enriched /\ an.fault.point = "none") =>
        \A k \in 1..Len(an.body) :
           \A info \in InfoOf(k) :
              LET node == an.body[k]
                  types == ClaimedTypes(node.return_values)
                  sorted == SelectSeq(TypeNames \o <<"unknown">>, LAMBDA t : t \in types)
              IN  info.return_type =
                     IF node.returns # "" THEN node.returns
                     ELSE IF sorted = <<>> THEN "None"
                     ELSE JoinTypes(sorted)

\* the part of C21 about returns that all resolve
C21_ResolvedReturnType ==
    (Enriched /\ an.fault.point = "none") =>
        \A k \in 1..Len(an.body) :
           \A info \in InfoOf(k) :
              LET node == an.body[k]
                  types == ClaimedTypes(node.return_values)
                  sorted == SelectSeq(TypeNames, LAMBDA t : t \in types)
              IN  "unknown" \notin types =>
                     info.return_type =
                        IF node.returns # "" THEN node.returns
                        ELSE IF sorted = <<>> THEN "None"
                        ELSE JoinTypes(sorted)

\* C22: when the enrichment of one function fails, the failure is
\* recorded, the function is still in the table with the affected field
\* "unknown" or empty (also when the failure is the inference of one of
\* its returns), and the other function's info is what it is without the
\* failure.
C22_FailureIsolated ==
    Enriched =>
        /\ an.fault.point # "none" =>
              \E j \in 1..Len(an.log) : an.log[j] = <<an.body[an.fault.at].name, an.fault.point>>
        /\ \A k \in 1..Len(an.body) :
              IF k = an.fault.at
              THEN /\ InfoOf(k) # {}
                   /\ \A info \in InfoOf(k) :
                         /\ an.fault.point = "parameters" => info.parameters = 0
                         /\ an.fault.point = "return_type" => info.return_type = "unknown"
                         /\ an.fault.point = "inner_functions" =>
                               \A j \in 1..Len(info.inner_functions) :
                                  info.inner_functions[j].return_type = "absent"
              ELSE /\ InfoOf(k) = {FuncInfo(an.body[k], "none")}
                   /\ \A info \in InfoOf(k) :
                         (/\ an.body[k].returns = ""
                          /\ \E r \in 1..Len(an.body[k].return_values) :
                                an.body[k].return_values[r] = <<"InferenceError">>)
                         => info.return_type = "unknown"

\* the failing input of C22: no part of the analysis fails but the
\* inference of the only return of a function without annotation
C22_InferenceFailure ==
    (/\ Enriched /\ an.fault.point = "none"
     /\ an.body[1].returns = "" /\ an.body[1].return_values = <<<<"InferenceError">>>>)
    => \A info \in InfoOf(1) : info.return_type = "unknown"

\* the part of C22 about the siblings
C22_SiblingsUnaffected ==
    Enriched =>
        \A k \in 1..Len(an.body) :
           k # an.fault.at => InfoOf(k) = {FuncInfo(an.body[k], "none")}

(***************************************************************************)
(* Claims about the table of CodeAnalyzer.analyze_code.                    *)
(***************************************************************************)
\* the names of the functions defined by the module's own statements
TopLevelFunctions(nodes) ==
    LET funcs == SelectSeq(nodes, LAMBDA n : n.kind = "func")
    IN  [k \in 1..Len(funcs) |-> funcs[k].name]

\* C23: the free-function list of a file that parses holds exactly the
\* top-level function definitions of the module, each once, also when a
\* class of the module has a method of the same name.
C23_FreeFunctions ==
    an.op = "analyze_files" =>
        \A k \in 1..Len(an.parts) :
           an.parts[k].error = "none" =>
              an.parts[k].table.functions =
                 TopLevelFunctions(ContentOf(fs[an.parts[k].file].content).nodes)

(***************************************************************************)
(* Claims about the token budget of a text.                                *)
(***************************************************************************)
Truncated == an.op = "truncate" /\ an.pc = "returned"

\* the first k lines of the content, with their line ends, fit the budget
LinesFit(lines, k, max_tokens) ==
    count_tokens(JoinNewline(SubSeq(lines, 1, k)) \o <<"\n">>) <= max_tokens

\* what C24 gives for a content that is over the budget
ClaimedTruncation(content, max_tokens) ==
    LET lines == SplitLines(content, 1)
        fitting == {k \in 1..Len(lines) : \A j \in 1..k : LinesFit(lines, j, max_tokens)}
        longest == CHOOSE k \in fitting : \A j \in fitting : j <= k
    IN  IF fitting # {}
        THEN JoinNewline(SubSeq(lines, 1, longest)) \o LinesMarker
        ELSE SubSeq(lines[1], 1, Min(IntOf(max_tokens * avg_chars_per_token), Len(lines[1])))
             \o CutMarker

\* C24: a content over the budget is cut to the longest prefix of whole
\* lines within the budget plus the marker, or, when the first line alone
\* is over the budget, to exactly budget x chars-per-token characters of
\* that line plus the marker.
C24_Truncation ==
    (Truncated /\ count_tokens(an.content) > an.max_tokens * TwelfthsPerToken) =>
        /\ an.result = ClaimedTruncation(an.content, an.max_tokens * TwelfthsPerToken)
        /\ \/ \E k \in 1..Len(SplitLines(an.content, 1)) :
                 an.result = JoinNewline(SubSeq(SplitLines(an.content, 1), 1, k)) \o LinesMarker
           \/ Len(an.result) = an.max_tokens * avg_chars_per_token + Len(CutMarker)

\* the part of C24 about contents without Japanese characters
C24_TruncationEnglish ==
    (/\ Truncated /\ ~HasJapanese(an.content)
     /\ count_tokens(an.content) > an.max_tokens * TwelfthsPerToken) =>
        /\ an.result = ClaimedTruncation(an.content, an.max_tokens * TwelfthsPerToken)
        /\ \/ \E k \in 1..Len(SplitLines(an.content, 1)) :
                 an.result = JoinNewline(SubSeq(SplitLines(an.content, 1), 1, k)) \o LinesMarker
           \/ Len(an.result) = an.max_tokens * avg_chars_per_token + Len(CutMarker)

\* C29: the text optimize_text returns is estimated at no more than
\* max_tokens tokens.
C29_WithinMaxTokens ==
    (an.op = "optimize_text" /\ an.pc = "returned") =>
        count_tokens(an.result) <= an.max_tokens * TwelfthsPerToken

\* the part of C29 about texts no section of which is cut
C29_WholeSectionsWithin ==
    (/\ an.op = "optimize_text" /\ an.pc = "returned"
     /\ ~Contains(an.result, CutMarker)
     /\ ~HasJapanese(an.result)) =>
        count_tokens(an.result) <= an.max_tokens * TwelfthsPerToken

(***************************************************************************)
(* Claims about the two passes of generate_call_graph.                     *)
(***************************************************************************)
\* the files of the batch that can be read and compiled
GoodFiles(paths) ==
    {f \in {paths[k] : k \in Indices(paths)} :
        fs[f].exists /\ CallContentOf(fs[f].content).ok}

AllRegistered ==
    \A f \in GoodFiles(an.paths) : ModuleName(f) \in DOMAIN an.module_functions

\* a step gives some caller a callee it did not have
EdgeAdded ==
    /\ an.op = "call_graph" /\ an'.op = "call_graph"
    /\ \E n \in DOMAIN an'.call_graph :
          \E callee \in an'.call_graph[n] :
             n \notin DOMAIN an.call_graph \/ callee \notin an.call_graph[n]

FullTable(paths) ==
    [m \in {ModuleName(f) : f \in GoodFiles(paths)} |->
       FunctionKeys(CallContentOf(fs[CHOOSE f \in GoodFiles(paths) : ModuleName(f) = m].content).body)]

RECURSIVE GraphInOrder(_, _, _, _)
GraphInOrder(order, i, table, graph) ==
    IF i > Len(order) THEN graph
    ELSE GraphInOrder(order, i + 1, table,
            IF order[i] \in GoodFiles(order)
            THEN AnalyzeModuleCalls(CallContentOf(fs[order[i]].content).body,
                                    ModuleName(order[i]), table, graph)
            ELSE graph)

\* the second part of C25: the graph returned for a batch is the graph of
\* the same files taken in sorted order
C25_OrderIndependent ==
    GraphReturned =>
        an.call_graph =
            GraphInOrder(SortedPaths(an.paths), 1, FullTable(an.paths),
                         [n \in UNION {{<<m>> \o k : k \in FullTable(an.paths)[m]} :
                                         m \in DOMAIN FullTable(an.paths)} |-> {}])

C26_Fresh ==
    ex.pc = "idle" =>
        \A f \in Files :
           (fs[f].exists /\ ~needs_update(db, fs, f, "none")) =>
              {r.name : r \in {RowsOfFile(db.snip, f)[k] : k \in Indices(RowsOfFile(db.snip, f))}}
              = {r.name : r \in {ExtractSnippets(f, ContentOf(fs[f].content))[k] :
                                   k \in Indices(ExtractSnippets(f, ContentOf(fs[f].content)))}}

\* C27: extract_from_file on a file that cannot be read or parsed returns
\* 0 and leaves the file's rows and its parse time as they were.
C27_FailedFileUntouched ==
    [][(ret'.op = "extract" /\ ret' # ret /\ ~ContentOf(ret'.content).ok) =>
          /\ ret'.val = 0
          /\ ret'.after = ret'.before
          /\ db'.dfiles[ret'.file] = IF ex.pc = "idle" THEN db.dfiles[ret'.file] ELSE ex.oldTs]_vars

\* the part of C27 about a file that cannot be opened
C27_MissingFileUntouched ==
    [][(ret'.op = "extract" /\ ret' # ret /\ ex.pc = "idle") =>
          /\ ret'.val = 0
          /\ ret'.after = ret'.before
          /\ db' = db]_vars

\* C28: loading a file re-analyses it once when it is stale, and once more
\* for every time it is saved meanwhile: the reload after a re-analysis
\* finds it fresh.
C28_DepthBounded ==
    an.op = "load" => an.depth <= 1 + an.edits

\* the part of C28 about files that can be read, carry no later time and
\* are not saved meanwhile
C28_ReadableDepthBounded ==
    (/\ an.op = "load" /\ an.edits = 0
     /\ fs[an.file].content # Unreadable
     /\ fs[an.file].mtime <= now) => an.depth <= 1 + an.edits

(***************************************************************************)
(* Claims about the quotas of the selection in optimize.                   *)
(***************************************************************************)
\* the positions a result list holds
Selected_in(r) == {r[a] : a \in 1..Len(r)}

\* C30: in the result of optimize the selected classes that match no focus
\* fragment are together within the classes quota, the selected functions
\* within the functions quota, no item is selected twice and both lists
\* are in descending score order.
C30_WithinQuotas ==
    Optimized =>
        LET cs == alloc.code_analysis.classes
            funcs == alloc.code_analysis.functions
            rc == alloc.result.classes
            rf == alloc.result.functions
            plain == {i \in Selected_in(rc) : ~AnyFocus(cs[i].name, alloc.focus_classes)}
        IN  /\ SizeOf(plain, [i \in 1..Len(cs) |-> ClassChars(cs[i])]) * alloc.result.unit
                  <= 4 * alloc.result.quota["classes"]
            /\ SizeOf(Selected_in(rf), [i \in 1..Len(funcs) |-> FuncChars(funcs[i])])
                  * alloc.result.unit <= 4 * alloc.result.quota["functions"]
            /\ Selected_in(rc) \subseteq 1..Len(cs) /\ Cardinality(Selected_in(rc)) = Len(rc)
            /\ Selected_in(rf) \subseteq 1..Len(funcs) /\ Cardinality(Selected_in(rf)) = Len(rf)
            /\ \A a, b \in 1..Len(rc) : a < b => ScoreOfClass(rc[a]) >= ScoreOfClass(rc[b])
            /\ \A a, b \in 1..Len(rf) : a < b => ScoreOfFunc(rf[a]) >= ScoreOfFunc(rf[b])

\* a result in which a focus class is selected over the quota, a plain
\* class is selected within it and a function is left out
C30_Witness ==
    /\ Optimized
    /\ LET cs == alloc.code_analysis.classes
           rc == alloc.result.classes
       IN  /\ \E i \in Selected_in(rc) :
                 /\ AnyFocus(cs[i].name, alloc.focus_classes)
                 /\ ClassChars(cs[i]) * alloc.result.unit > 4 * alloc.result.quota["classes"]
           /\ \E i \in Selected_in(rc) : ~AnyFocus(cs[i].name, alloc.focus_classes)
    /\ Len(alloc.result.functions) < Len(alloc.code_analysis.functions)

====
